---- MODULE Spec2Model ----
(***************************************************************************)
(* Model of the casey interview backend: the voice-activity Turn Detector  *)
(* (backend/vad.js), the per-connection session controller (server code    *)
(* kept in .cursor/plans/aws_resources_refactor_research_65fbf980.plan.md) *)
(* and the Response Synthesis Coordinator (backend/agent.js).              *)
(***************************************************************************)
EXTENDS Integers, Sequences, FiniteSets, TLC

(***************************************************************************)
(* Program constants (backend/vad.js lines 7-10).                          *)
(***************************************************************************)
SILENCE_DURATION_MS == 3000
MIN_SPEECH_DURATION_MS == 3000
ENERGY_THRESHOLD == 300
DEFAULT_SAMPLE_RATE == 48000

(***************************************************************************)
(* Bounds of the model.                                                    *)
(***************************************************************************)
\* feed() calls per detector cycle (between two reset() calls)
MaxFrames == 5
\* reset() calls on one detector
MaxResets == 2

(***************************************************************************)
(* Audio frames.  A frame is what RTCAudioSink hands to ondata: 16-bit PCM *)
(* samples plus (optionally) a sample rate.  The samples of a frame are    *)
(* modelled as byteLength/2 samples of constant magnitude amp, so that the *)
(* mean square is amp^2 and the root mean square is amp.                   *)
(***************************************************************************)
Frame(bl, hasRate, rate, amp) ==
    [byteLength |-> bl, hasSampleRate |-> hasRate, sampleRate |-> rate, amp |-> amp]

\* 1500 ms of voice just above the energy threshold, at 8 kHz
V1500 == Frame(24000, TRUE, 8000, 301)
\* 1000 ms of loud voice at 8 kHz
V1000 == Frame(16000, TRUE, 8000, 500)
\* 1500 ms of low-level noise, no sample rate given (48 kHz assumed)
S1500 == Frame(144000, FALSE, 0, 100)
\* a payload of one byte: insufficient data
BadFrame == Frame(1, TRUE, 8000, 500)
\* no payload at all (feed(undefined), feed({})): the byte length reads as 0
NoPayload == Frame(0, FALSE, 0, 0)

Frames == {V1500, V1000, S1500, BadFrame, NoPayload}

(***************************************************************************)
(* backend/vad.js                                                          *)
(***************************************************************************)
\* Math.sqrt on the mean squares the frames give (perfect squares), by bisection
RECURSIVE SqrtIn(_, _, _)
SqrtIn(n, lo, hi) ==
    IF lo >= hi THEN lo
    ELSE LET mid == (lo + hi + 1) \div 2
         IN  IF mid * mid <= n THEN SqrtIn(n, mid, hi) ELSE SqrtIn(n, lo, mid - 1)

ISqrt(n) == SqrtIn(n, 0, 32767)

computeRMS(data) ==
    IF data.byteLength < 2 THEN 0
    ELSE LET len == data.byteLength \div 2
             sum == len * data.amp * data.amp
         IN  IF len > 0 THEN ISqrt(sum \div len) ELSE 0

sampleRateOf(data) ==
    IF data.hasSampleRate THEN data.sampleRate ELSE DEFAULT_SAMPLE_RATE

\* (byteLength / 2 / sampleRate) * 1000, exact on the frames of the model
durationMs(data) == ((data.byteLength \div 2) * 1000) \div sampleRateOf(data)

isVoice(data) == computeRMS(data) > ENERGY_THRESHOLD

createVAD ==
    [totalSilenceMs |-> 0, totalVoiceMs |-> 0, agentTriggered |-> FALSE,
     armed |-> FALSE, hasSeenVoiceThisRound |-> FALSE, utteranceBuffer |-> <<>>]

\* feedAccepted with the silence counter not cleared by a voiced frame
feedAcceptedKeepSilence(v, data) ==
    LET voice == isVoice(data)
        d == durationMs(data)
        seen == v.hasSeenVoiceThisRound \/ voice
        tv == IF voice THEN v.totalVoiceMs + d ELSE v.totalVoiceMs
        ts == IF voice THEN v.totalSilenceMs ELSE v.totalSilenceMs + d
        arm == v.armed \/ (voice /\ tv >= MIN_SPEECH_DURATION_MS)
        buf == IF seen
               THEN Append(v.utteranceBuffer,
                           [amp |-> data.amp, sampleRate |-> sampleRateOf(data),
                            byteLength |-> data.byteLength])
               ELSE v.utteranceBuffer
        trig == arm /\ ts >= SILENCE_DURATION_MS
    IN  [vad |-> [totalSilenceMs |-> ts, totalVoiceMs |-> tv, agentTriggered |-> trig,
                  armed |-> arm, hasSeenVoiceThisRound |-> seen, utteranceBuffer |-> buf],
         cb |-> IF trig THEN <<[chunks |-> buf, sampleRate |-> sampleRateOf(data)]>>
                ELSE <<>>,
         chunk |-> IF seen THEN <<data.byteLength>> ELSE <<>>]

\* feedAccepted triggering only when the silence exceeds the threshold
feedAcceptedStrict(v, data) ==
    LET voice == isVoice(data)
        d == durationMs(data)
        seen == v.hasSeenVoiceThisRound \/ voice
        tv == IF voice THEN v.totalVoiceMs + d ELSE v.totalVoiceMs
        ts == IF voice THEN 0 ELSE v.totalSilenceMs + d
        arm == v.armed \/ (voice /\ tv >= MIN_SPEECH_DURATION_MS)
        buf == IF seen
               THEN Append(v.utteranceBuffer,
                           [amp |-> data.amp, sampleRate |-> sampleRateOf(data),
                            byteLength |-> data.byteLength])
               ELSE v.utteranceBuffer
        trig == arm /\ ts > SILENCE_DURATION_MS
    IN  [vad |-> [totalSilenceMs |-> ts, totalVoiceMs |-> tv, agentTriggered |-> trig,
                  armed |-> arm, hasSeenVoiceThisRound |-> seen, utteranceBuffer |-> buf],
         cb |-> IF trig THEN <<[chunks |-> buf, sampleRate |-> sampleRateOf(data)]>>
                ELSE <<>>,
         chunk |-> IF seen THEN <<data.byteLength>> ELSE <<>>]

\* feedAccepted buffering every frame, the ones before the first voice too
feedAcceptedBuffersAll(v, data) ==
    LET voice == isVoice(data)
        d == durationMs(data)
        seen == v.hasSeenVoiceThisRound \/ voice
        tv == IF voice THEN v.totalVoiceMs + d ELSE v.totalVoiceMs
        ts == IF voice THEN 0 ELSE v.totalSilenceMs + d
        arm == v.armed \/ (voice /\ tv >= MIN_SPEECH_DURATION_MS)
        buf == Append(v.utteranceBuffer,
                      [amp |-> data.amp, sampleRate |-> sampleRateOf(data),
                       byteLength |-> data.byteLength])
        trig == arm /\ ts >= SILENCE_DURATION_MS
    IN  [vad |-> [totalSilenceMs |-> ts, totalVoiceMs |-> tv, agentTriggered |-> trig,
                  armed |-> arm, hasSeenVoiceThisRound |-> seen, utteranceBuffer |-> buf],
         cb |-> IF trig THEN <<[chunks |-> buf, sampleRate |-> sampleRateOf(data)]>>
                ELSE <<>>,
         chunk |-> <<data.byteLength>>]

\* the body of feed() after the two early returns
feedAccepted(v, data) ==
    LET voice == isVoice(data)
        d == durationMs(data)
        seen == v.hasSeenVoiceThisRound \/ voice
        tv == IF voice THEN v.totalVoiceMs + d ELSE v.totalVoiceMs
        ts == IF voice THEN 0 ELSE v.totalSilenceMs + d
        arm == v.armed \/ (voice /\ tv >= MIN_SPEECH_DURATION_MS)
        buf == IF seen
               THEN Append(v.utteranceBuffer,
                           [amp |-> data.amp, sampleRate |-> sampleRateOf(data),
                            byteLength |-> data.byteLength])
               ELSE v.utteranceBuffer
        trig == arm /\ ts >= SILENCE_DURATION_MS
    IN  [vad |-> [totalSilenceMs |-> ts, totalVoiceMs |-> tv, agentTriggered |-> trig,
                  armed |-> arm, hasSeenVoiceThisRound |-> seen, utteranceBuffer |-> buf],
         cb |-> IF trig THEN <<[chunks |-> buf, sampleRate |-> sampleRateOf(data)]>>
                ELSE <<>>,
         chunk |-> IF seen THEN <<data.byteLength>> ELSE <<>>]

\* feed without the early return of a triggered detector
feedNoTriggeredGuard(v, data) ==
    IF data.byteLength < 2 THEN [vad |-> v, cb |-> <<>>, chunk |-> <<>>]
    ELSE feedAccepted(v, data)

\* feed taking a frame of insufficient data as the end of a silence
feedShortClearsSilence(v, data) ==
    IF v.agentTriggered THEN [vad |-> v, cb |-> <<>>, chunk |-> <<>>]
    ELSE IF data.byteLength < 2
    THEN [vad |-> [v EXCEPT !.totalSilenceMs = 0], cb |-> <<>>, chunk |-> <<>>]
    ELSE feedAccepted(v, data)

\* feed that still buffers and forwards the frames fed to a triggered detector
feedBuffersWhenTriggered(v, data) ==
    IF data.byteLength < 2 THEN [vad |-> v, cb |-> <<>>, chunk |-> <<>>]
    ELSE IF v.agentTriggered
    THEN [vad |-> [v EXCEPT !.utteranceBuffer =
                      Append(@, [amp |-> data.amp, sampleRate |-> sampleRateOf(data),
                                 byteLength |-> data.byteLength])],
          cb |-> <<>>,
          chunk |-> <<data.byteLength>>]
    ELSE feedAccepted(v, data)

\* feed(data): the new detector state, the callback invocations it makes and
\* the chunks it forwards to onAudioChunk
feed(v, data) ==
    IF v.agentTriggered THEN [vad |-> v, cb |-> <<>>, chunk |-> <<>>]
    ELSE IF data.byteLength < 2 THEN [vad |-> v, cb |-> <<>>, chunk |-> <<>>]
    ELSE feedAccepted(v, data)

\* reset leaving the voice counter as it was
resetKeepVoice(v) ==
    [totalSilenceMs |-> 0, totalVoiceMs |-> v.totalVoiceMs, agentTriggered |-> FALSE,
     armed |-> FALSE, hasSeenVoiceThisRound |-> FALSE, utteranceBuffer |-> <<>>]

reset(v) ==
    [totalSilenceMs |-> 0, totalVoiceMs |-> 0, agentTriggered |-> FALSE,
     armed |-> FALSE, hasSeenVoiceThisRound |-> FALSE, utteranceBuffer |-> <<>>]

(***************************************************************************)
(* State.                                                                  *)
(***************************************************************************)
VARIABLES
    vad,        \* the Turn Detector's closure variables
    fedLog,     \* a detector on its own: frames passed to feed() since the last reset()
    calls,      \* a detector on its own: callback invocations since the last reset()
    resets,     \* number of reset() calls so far
    fresh,      \* a detector created by createVAD at the last reset(), fed the same frames
    freshCalls, \* the callback invocations of fresh
    resetFrom,  \* the phase the detector was in when reset() was last called
    creds,      \* hasAWSCredentials(): whether the process has provider credentials
    ws,         \* the signaling socket: "open" or "closed"
    pcs,        \* every RTCPeerConnection the session created: "open" or "closed"
    pc,         \* the connection handler's pc: an index of pcs, 0 for null
    sinks,      \* the RTCAudioSink made for the track of each pc: "none", "running", "stopped"
    audioSink,  \* the connection handler's audioSink: the pc of the sink, 0 for null
    ondata,     \* the sink whose ondata feeds the detector, 0 when there is none
    channels,   \* the data channel of each pc: [readyState], "none" before it is announced
    dataChannel,\* the connection handler's dataChannel: the pc of the channel, 0 for null
    vadStarted, \* the connection handler's vadStarted flag
    conversationHistory, \* the connection handler's conversationHistory
    wire,       \* what dataChannel.send() was given for the turn in progress: [ch, run, ev]
    runs,       \* every run the detector's callback (or a caller of runAgent) started
    streamedChunks,         \* the client's streamedAudioChunks: the chunks received this turn
    streamEnded,            \* the client's streamEnded flag
    streamedSpeechMarks,    \* the client's streamedSpeechMarks: the visemes received
    isStreaming,            \* useStreamingPlayback's isStreaming state
    pendingRef,             \* pendingRef.current: the chunks' bytes not yet consumed
    nextStartTimeRef,       \* nextStartTimeRef.current (seconds)
    streamStartTimeRef,     \* streamStartTimeRef.current (seconds)
    lastProcessedIndexRef,  \* lastProcessedIndexRef.current
    streamingDurationRef,   \* streamingDurationRef.current (milliseconds)
    streamingTimeRef,       \* streamingTimeRef.current (milliseconds)
    decodingInProgressRef,  \* decodingInProgressRef.current
    audioContextRef,        \* whether audioContextRef.current is an AudioContext
    currentTime,            \* ctx.currentTime (seconds)
    rafRef,                 \* whether a requestAnimationFrame(tick) is outstanding
    chunksChanged,          \* streamedChunks was set since the effects last ran
    committed,              \* [streamEnded, isStreaming] as the effects last saw them
    decodes,                \* the decodeAudioData() promises not yet settled
    segments,               \* every source.start() so far: [start, duration, input, turn, at]
    callbacks,              \* every onStreamingEnd() invocation so far, with what tick saw
    turn,                   \* the turn the server is sending, 0 before the first
    toSend,                 \* the bytes of this turn's audio the server has yet to send
    received,               \* per turn: [chunks, end] the client has been given
    micEnabled,             \* audioTrackRef.current.enabled: the microphone is live
    micLog,                 \* the setMicEnabled() calls that changed side: [turn, enabled]
    stt,                    \* a createStreamingSTT() session: its closure and its promise
    signaling,              \* what the server's ws.send() was given, by type, in order
    client,                 \* useInterviewWebRTC: its state, its refs and what it opened
    demux                   \* dc.onmessage: what it was given and what it made of it

vadVars == <<vad, fedLog, calls, resets, fresh, freshCalls, resetFrom>>
sessVars == <<ws, pcs, pc, sinks, audioSink, ondata, channels, dataChannel, vadStarted>>
playVars == <<streamedChunks, streamEnded, streamedSpeechMarks, isStreaming, pendingRef, nextStartTimeRef,
              streamStartTimeRef, lastProcessedIndexRef, streamingDurationRef,
              streamingTimeRef, decodingInProgressRef, audioContextRef, currentTime,
              rafRef, chunksChanged, committed, decodes, segments, callbacks, turn,
              toSend, received, micEnabled, micLog>>
micVars == <<micEnabled, micLog>>
\* what no action of the server changes: its credentials and the client's player
envVars == <<creds, playVars, stt, signaling, client, demux>>
agentVars == <<envVars, conversationHistory, wire, runs>>
vars == <<vad, fedLog, calls, resets, fresh, freshCalls, resetFrom,
          creds, ws, pcs, pc, sinks, audioSink, ondata, channels, dataChannel,
          vadStarted, conversationHistory, wire, runs, playVars, stt,
          signaling, client, demux>>

\* the phase of the detector's state machine (spec section 4.1)
PhaseOf(v) ==
    IF v.agentTriggered THEN "TRIGGERED"
    ELSE IF v.armed THEN "ARMED"
    ELSE IF v.hasSeenVoiceThisRound THEN "ACCUMULATING_VOICE"
    ELSE "IDLE"

Stamp(cbs, at) == [i \in 1..Len(cbs) |->
                     [chunks |-> cbs[i].chunks, sampleRate |-> cbs[i].sampleRate, at |-> at]]

\* useInterviewWebRTC before connect(): status 'idle', error null, every ref
\* null, connectedRef false.  conns holds, per call of connect(), the socket,
\* the peer link, the sub-channel and the promise that call made; failed says
\* that the transport has failed since the last connect() or disconnect().
NoClient ==
    [status |-> "idle", error |-> "null", wsRef |-> 0, pcRef |-> 0,
     connectedRef |-> FALSE, rejectRef |-> 0, conns |-> <<>>, failed |-> FALSE]

\* the sub-channel before its first message: nothing to come, nothing
\* received, no conversion outstanding, the streamed state as useState made it
NoDemux ==
    [binaryType |-> "arraybuffer", toCome |-> <<>>, got |-> <<>>, reading |-> {},
     streamedAudioChunks |-> <<>>, streamedSpeechMarks |-> <<>>, streamEnded |-> FALSE]

\* createStreamingSTT(): queue = [], ended = false, transcriptPromise = null
NoStt ==
    [queue |-> <<>>, ended |-> FALSE, transcriptPromise |-> "null",
     results |-> <<>>, fullTranscript |-> <<>>, value |-> <<>>,
     awaiting |-> FALSE, returned |-> <<>>, outcome |-> "none", failedAt |-> 0,
     fed |-> <<>>, delivered |-> <<>>, inputDone |-> FALSE]

\* the client's player as the hook's first render leaves it
\* (useRef/useState initial values)
NoPlayer ==
    /\ streamedChunks = <<>> /\ streamEnded = FALSE /\ isStreaming = FALSE
    /\ streamedSpeechMarks = <<>>
    /\ pendingRef = <<>> /\ nextStartTimeRef = 0 /\ streamStartTimeRef = 0
    /\ lastProcessedIndexRef = 0 /\ streamingDurationRef = 0 /\ streamingTimeRef = 0
    /\ decodingInProgressRef = FALSE /\ audioContextRef = FALSE /\ currentTime = 0
    /\ rafRef = FALSE /\ chunksChanged = FALSE
    /\ committed = [streamEnded |-> FALSE, isStreaming |-> FALSE, length |-> 0]
    /\ micEnabled = TRUE /\ micLog = <<>>
    /\ decodes = <<>> /\ segments = <<>> /\ callbacks = <<>>
    /\ turn = 0 /\ toSend = <<>> /\ received = <<>>

\* a detector on its own: no session around it
NoSession ==
    /\ creds = FALSE
    /\ NoPlayer
    /\ stt = NoStt
    /\ signaling = <<>>
    /\ client = NoClient
    /\ demux = NoDemux
    /\ ws = "open"
    /\ pcs = <<>>
    /\ pc = 0
    /\ sinks = <<>>
    /\ audioSink = 0
    /\ ondata = 0
    /\ channels = <<>>
    /\ dataChannel = 0
    /\ vadStarted = FALSE
    /\ conversationHistory = <<>>
    /\ wire = <<>>
    /\ runs = <<>>

VadInit ==
    /\ NoSession
    /\ vad = createVAD
    /\ fedLog = <<>>
    /\ calls = <<>>
    /\ resets = 0
    /\ fresh = createVAD
    /\ freshCalls = <<>>
    /\ resetFrom = "none"

\* one feed(data) call on the detector (and on the reference detector)
VadFeed(data) ==
    /\ Len(fedLog) < MaxFrames
    /\ LET r == feed(vad, data)
           f == feed(fresh, data)
       IN  /\ vad' = r.vad
           /\ calls' = calls \o Stamp(r.cb, Len(fedLog) + 1)
           /\ fresh' = f.vad
           /\ freshCalls' = freshCalls \o Stamp(f.cb, Len(fedLog) + 1)
    /\ fedLog' = Append(fedLog, data)
    /\ UNCHANGED <<resets, resetFrom, sessVars, agentVars>>

\* one reset() call; the reference detector is replaced by a new one
VadReset ==
    /\ resets < MaxResets
    /\ vad' = reset(vad)
    /\ fedLog' = <<>>
    /\ calls' = <<>>
    /\ resets' = resets + 1
    /\ fresh' = createVAD
    /\ freshCalls' = <<>>
    /\ resetFrom' = PhaseOf(vad)
    /\ UNCHANGED <<sessVars, agentVars>>

VadNext == (\E data \in Frames : VadFeed(data)) \/ VadReset

SpecVAD == VadInit /\ [][VadNext]_vars

(***************************************************************************)
(* The concrete scenario of spec section 8: 3.5 s of above-threshold       *)
(* frames, then 3.2 s of below-threshold frames, fed to a new detector in  *)
(* frames of any of the sizes below.                                       *)
(***************************************************************************)
ScenarioVoiceMs == MIN_SPEECH_DURATION_MS + 500
ScenarioSilenceMs == SILENCE_DURATION_MS + 200
ScenarioVoiceSizes == {1000, 1500}
ScenarioSilenceSizes == {200, 1000, 1600}

\* a frame of ms milliseconds of constant magnitude amp at 8 kHz
FrameOfMs(ms, amp) == Frame(ms * 16, TRUE, 8000, amp)

RECURSIVE SumMs(_)
SumMs(log) == IF log = <<>> THEN 0 ELSE durationMs(Head(log)) + SumMs(Tail(log))

\* the frames of log that are voiced (or not), in order
VoicedOf(log) == SelectSeq(log, isVoice)
UnvoicedOf(log) == SelectSeq(log, LAMBDA f : ~isVoice(f))

ScenarioVoice(ms) ==
    /\ UnvoicedOf(fedLog) = <<>>
    /\ SumMs(fedLog) + ms <= ScenarioVoiceMs
    /\ LET r == feed(vad, FrameOfMs(ms, 301))
       IN  /\ vad' = r.vad
           /\ calls' = calls \o Stamp(r.cb, Len(fedLog) + 1)
    /\ fedLog' = Append(fedLog, FrameOfMs(ms, 301))
    /\ UNCHANGED <<resets, fresh, freshCalls, resetFrom, sessVars, agentVars>>

ScenarioSilence(ms) ==
    /\ SumMs(VoicedOf(fedLog)) = ScenarioVoiceMs
    /\ SumMs(UnvoicedOf(fedLog)) + ms <= ScenarioSilenceMs
    /\ LET r == feed(vad, FrameOfMs(ms, 300))
       IN  /\ vad' = r.vad
           /\ calls' = calls \o Stamp(r.cb, Len(fedLog) + 1)
    /\ fedLog' = Append(fedLog, FrameOfMs(ms, 300))
    /\ UNCHANGED <<resets, fresh, freshCalls, resetFrom, sessVars, agentVars>>

ScenarioNext ==
    \/ \E ms \in ScenarioVoiceSizes : ScenarioVoice(ms)
    \/ \E ms \in ScenarioSilenceSizes : ScenarioSilence(ms)

SpecScenario == VadInit /\ [][ScenarioNext]_vars

ScenarioDone ==
    /\ SumMs(VoicedOf(fedLog)) = ScenarioVoiceMs
    /\ SumMs(UnvoicedOf(fedLog)) = ScenarioSilenceMs

(***************************************************************************)
(* backend/agent.js: the Response Synthesis Coordinator.                   *)
(*                                                                         *)
(* A run is one call of runAgent.  The awaits on the CloudWatch helpers    *)
(* (logRequest, logResponse, logError, logInfo) never throw                 *)
(* (cloudwatch.js catches everything) and change no state of the run, so   *)
(* each is folded into the step that follows it.                           *)
(***************************************************************************)
FALLBACK_TEXT == "I apologize, I had trouble processing that."
OKAY_TEXT == "Okay."
TEST_TEXT == "Hello. This is a test response from the interview platform."
NO_SPEECH == "(no speech detected)"
VISEME_CODES == <<"p", "t", "S", "i", "u", "a", "@", "e", "E", "o">>
TEST_DURATION_MS == 2000
TEST_INTERVAL_MS == 80

\* String.prototype.trim on the strings of the model
Trim(str) ==
    CASE str = " hi " -> "hi"
      [] str = "  " -> ""
      [] OTHER -> str

\* what runSTT may return
Transcripts == {"", "hi", " hi "}
\* what the text-generation provider may return as the joined content text
LLMTexts == {"Sure.", "  "}

\* outbound events, as the arguments of sendAudioChunk / sendViseme / sendEnd
AudioEv(n) == [type |-> "audio", size |-> n, time |-> 0, value |-> ""]
VisemeEv(t, v) == [type |-> "viseme", size |-> 0, time |-> t, value |-> v]
EndEv == [type |-> "end", size |-> 0, time |-> 0, value |-> ""]

\* the lines of a speech-mark response body
MarkLine(t, v) == [json |-> TRUE, type |-> "viseme", time |-> t, hasValue |-> TRUE, value |-> v]
WordLine(t) == [json |-> TRUE, type |-> "word", time |-> t, hasValue |-> TRUE, value |-> "hello"]
NullLine(t) == [json |-> TRUE, type |-> "viseme", time |-> t, hasValue |-> FALSE, value |-> ""]
BrokenLine == [json |-> FALSE, type |-> "", time |-> 0, hasValue |-> FALSE, value |-> ""]

\* the audio streams the synthesis provider may return, as chunk lengths
AudioStreams == {<<>>, <<3>>, <<2, 0, 1>>}
\* the speech-mark bodies the synthesis provider may return
VisemeBodies == {<<>>, <<MarkLine(0, "p"), BrokenLine, MarkLine(125, "t")>>,
                 <<WordLine(0), MarkLine(0, "a"), NullLine(90)>>}

\* the loop with one try around it: it stops at the first malformed line
RECURSIVE ParseMarksStopAtBroken(_)
ParseMarksStopAtBroken(body) ==
    IF body = <<>> THEN <<>>
    ELSE LET line == Head(body)
         IN  IF ~line.json THEN <<>>
             ELSE IF line.type = "viseme" /\ line.hasValue
             THEN <<VisemeEv(line.time, line.value)>> \o ParseMarksStopAtBroken(Tail(body))
             ELSE ParseMarksStopAtBroken(Tail(body))

\* the for loop of streamVisemes over the lines of the body (agent.js 269-277)
RECURSIVE ParseMarks(_)
ParseMarks(body) ==
    IF body = <<>> THEN <<>>
    ELSE LET line == Head(body)
         IN  IF line.json /\ line.type = "viseme" /\ line.hasValue
             THEN <<VisemeEv(line.time, line.value)>> \o ParseMarks(Tail(body))
             ELSE ParseMarks(Tail(body))

\* the for loop of sendTestResponse (agent.js 312-315); pick[k] is the index
\* Math.random gives for the k-th event
RECURSIVE TestLoop(_, _, _)
TestLoop(t, k, pick) ==
    IF t < TEST_DURATION_MS
    THEN <<VisemeEv(t, VISEME_CODES[pick[k]])>> \o TestLoop(t + TEST_INTERVAL_MS, k + 1, pick)
    ELSE <<>>

\* a loop that starts one interval late
sendTestResponseLate(pick) == TestLoop(TEST_INTERVAL_MS, 1, pick) \o <<EndEv>>

sendTestResponse(pick) == TestLoop(0, 1, pick) \o <<EndEv>>

\* the indices Math.random may give over one test response
TestPicks == {[k \in 1..30 |-> 1], [k \in 1..30 |-> ((k - 1) % Len(VISEME_CODES)) + 1]}

\* getAgentOptions: each send* callback passes its event to dataChannel.send
\* only when the handler's dataChannel is open
ChannelOpen == dataChannel # 0 /\ channels[dataChannel].readyState = "open"
\* callbacks that send whatever the state of the channel
SentUnchecked(i, evs) ==
    IF dataChannel # 0
    THEN wire \o [k \in 1..Len(evs) |-> [ch |-> dataChannel, run |-> i, ev |-> evs[k]]]
    ELSE wire

Sent(i, evs) ==
    IF ChannelOpen
    THEN wire \o [k \in 1..Len(evs) |-> [ch |-> dataChannel, run |-> i, ev |-> evs[k]]]
    ELSE wire

\* runAgent called with creds: it stops at the import of the generation SDK
RunRecord(t, threw) ==
    [phase |-> "llmImport", userTranscript |-> t, sttThrew |-> threw,
     llm |-> "none", text |-> "",
     audio |-> "idle", audioText |-> "", audioLeft |-> <<>>, audioResult |-> "none",
     viseme |-> "idle", visemeText |-> "", visemeBody |-> <<>>, visemeResult |-> "none",
     emitted |-> <<>>, handled |-> FALSE]

\* a run that is over, as the next run finds it: its locals are gone
Archived(r) ==
    IF r.phase \in {"resolved", "rejected"}
    THEN [RunRecord("", FALSE) EXCEPT !.phase = "archived", !.handled = r.handled]
    ELSE r

ArchivedRuns == [k \in 1..Len(runs) |-> Archived(runs[k])]

\* runAgent({conversationHistory, userTranscript, sendAudioChunk, sendViseme, sendEnd})
\* as run i of rs, up to its first suspension (agent.js 23-46).  Without
\* credentials it runs to its end at once.  wire is kept from the start of the
\* latest run.
runAgent(rs, i, t, threw) ==
    IF creds
    THEN /\ runs' = [rs EXCEPT ![i] = RunRecord(t, threw)]
         /\ wire' = <<>>
    ELSE \E pick \in TestPicks :
         /\ runs' = [rs EXCEPT ![i] = [RunRecord(t, threw) EXCEPT
                                         !.phase = "resolved", !.text = TEST_TEXT,
                                         !.emitted = sendTestResponse(pick)]]
         /\ wire' = IF ChannelOpen
                    THEN [k \in 1..Len(sendTestResponse(pick)) |->
                            [ch |-> dataChannel, run |-> i, ev |-> sendTestResponse(pick)[k]]]
                    ELSE <<>>

InFlight(r) == r.phase \in {"stt", "llmImport", "llm", "ttsImport", "tts"}

\* getLLMResponse: await import('@aws-sdk/client-bedrock-runtime') (agent.js 52),
\* outside the try: a failed import rejects the run
LlmImport(i, ok) ==
    /\ runs[i].phase = "llmImport"
    /\ runs' = [runs EXCEPT ![i].phase = IF ok THEN "llm" ELSE "rejected",
                            ![i].llm = IF ok THEN "sent" ELSE "none"]
    /\ UNCHANGED <<conversationHistory, wire, vadVars, sessVars, envVars>>

\* getLLMResponse pushing the assistant's entry only
LlmReturnAssistantOnly(i, raw) ==
    /\ runs[i].phase = "llm"
    /\ LET responseText == IF Trim(raw) = "" THEN OKAY_TEXT ELSE Trim(raw)
       IN  /\ conversationHistory' = Append(conversationHistory,
                                            [role |-> "assistant", content |-> responseText])
           /\ runs' = [runs EXCEPT ![i].phase = "ttsImport", ![i].llm = "ok",
                                   ![i].text = responseText]
    /\ UNCHANGED <<wire, vadVars, sessVars, envVars>>

\* the generation call returns raw as its joined content (agent.js 86-133)
LlmReturn(i, raw) ==
    /\ runs[i].phase = "llm"
    /\ LET responseText == IF Trim(raw) = "" THEN OKAY_TEXT ELSE Trim(raw)
           said == IF Trim(runs[i].userTranscript) = "" THEN NO_SPEECH
                   ELSE Trim(runs[i].userTranscript)
       IN  /\ conversationHistory' = conversationHistory \o
                  <<[role |-> "user", content |-> said],
                    [role |-> "assistant", content |-> responseText]>>
           /\ runs' = [runs EXCEPT ![i].phase = "ttsImport", ![i].llm = "ok",
                                   ![i].text = responseText]
    /\ UNCHANGED <<wire, vadVars, sessVars, envVars>>

\* getLLMResponse pushing the user message before the call: a failed call
\* leaves it in the history
LlmThrowKeepsUser(i) ==
    /\ runs[i].phase = "llm"
    /\ runs' = [runs EXCEPT ![i].phase = "ttsImport", ![i].llm = "threw",
                            ![i].text = FALLBACK_TEXT]
    /\ conversationHistory' = Append(conversationHistory,
                                     [role |-> "user", content |-> runs[i].userTranscript])
    /\ UNCHANGED <<wire, vadVars, sessVars, envVars>>

\* getLLMResponse without its catch: the failure rejects the run
LlmThrowUncaught(i) ==
    /\ runs[i].phase = "llm"
    /\ runs' = [runs EXCEPT ![i].phase = "rejected", ![i].llm = "threw"]
    /\ UNCHANGED <<conversationHistory, wire, vadVars, sessVars, envVars>>

\* the generation call throws (agent.js 134-150)
LlmThrow(i) ==
    /\ runs[i].phase = "llm"
    /\ runs' = [runs EXCEPT ![i].phase = "ttsImport", ![i].llm = "threw",
                            ![i].text = FALLBACK_TEXT]
    /\ UNCHANGED <<conversationHistory, wire, vadVars, sessVars, envVars>>

\* streamTTS: await import('@aws-sdk/client-polly') (agent.js 161), outside any
\* try; then streamAudio() and streamVisemes() are started together and each
\* issues its SynthesizeSpeech call on text
PollyImport(i, ok) ==
    /\ runs[i].phase = "ttsImport"
    /\ runs' = IF ok
               THEN [runs EXCEPT ![i].phase = "tts",
                                 ![i].audio = "request", ![i].audioText = runs[i].text,
                                 ![i].viseme = "request", ![i].visemeText = runs[i].text]
               ELSE [runs EXCEPT ![i].phase = "rejected"]
    /\ UNCHANGED <<conversationHistory, wire, vadVars, sessVars, envVars>>

\* streamAudio: polly.send resolves with an AudioStream (agent.js 187-198)
AudioResponse(i, stream) ==
    /\ runs[i].audio = "request"
    /\ runs' = [runs EXCEPT ![i].audio = "streaming", ![i].audioLeft = stream]
    /\ UNCHANGED <<conversationHistory, wire, vadVars, sessVars, envVars>>

\* streamAudio without its catch: the failure rejects Promise.all and the run
AudioThrowUncaught(i) ==
    /\ runs[i].audio = "request"
    /\ runs' = [runs EXCEPT ![i].audio = "done", ![i].audioResult = "threw",
                            ![i].phase = "rejected"]
    /\ UNCHANGED <<conversationHistory, wire, vadVars, sessVars, envVars>>

\* streamAudio: polly.send throws (agent.js 220-231)
AudioThrow(i) ==
    /\ runs[i].audio = "request"
    /\ runs' = [runs EXCEPT ![i].audio = "done", ![i].audioResult = "threw"]
    /\ UNCHANGED <<conversationHistory, wire, vadVars, sessVars, envVars>>

\* streamAudio: the stream yields its next chunk (agent.js 199-206)
AudioChunk(i) ==
    /\ runs[i].audio = "streaming"
    /\ runs[i].audioLeft # <<>>
    /\ LET n == Head(runs[i].audioLeft)
           evs == IF n > 0 THEN <<AudioEv(n)>> ELSE <<>>
       IN  /\ runs' = [runs EXCEPT ![i].audioLeft = Tail(runs[i].audioLeft),
                                   ![i].emitted = runs[i].emitted \o evs]
           /\ wire' = Sent(i, evs)
    /\ UNCHANGED <<conversationHistory, vadVars, sessVars, envVars>>

\* streamAudio: the stream ends (agent.js 207-219)
AudioEnd(i) ==
    /\ runs[i].audio = "streaming"
    /\ runs[i].audioLeft = <<>>
    /\ runs' = [runs EXCEPT ![i].audio = "done", ![i].audioResult = "ok"]
    /\ UNCHANGED <<conversationHistory, wire, vadVars, sessVars, envVars>>

\* streamAudio: reading the stream throws (agent.js 199, 220-231)
AudioStreamFail(i) ==
    /\ runs[i].audio = "streaming"
    /\ runs' = [runs EXCEPT ![i].audio = "done", ![i].audioResult = "failed",
                            ![i].audioLeft = <<>>]
    /\ UNCHANGED <<conversationHistory, wire, vadVars, sessVars, envVars>>

\* streamVisemes: polly.send resolves with a speech-mark stream (agent.js 253-268)
VisemeResponse(i, body) ==
    /\ runs[i].viseme = "request"
    /\ runs' = [runs EXCEPT ![i].viseme = "reading", ![i].visemeBody = body]
    /\ UNCHANGED <<conversationHistory, wire, vadVars, sessVars, envVars>>

\* streamVisemes: polly.send throws (agent.js 290-301)
VisemeThrow(i) ==
    /\ runs[i].viseme = "request"
    /\ runs' = [runs EXCEPT ![i].viseme = "done", ![i].visemeResult = "threw"]
    /\ UNCHANGED <<conversationHistory, wire, vadVars, sessVars, envVars>>

\* streamVisemes holding its events back until the audio stream is over
VisemeReadDoneAfterAudio(i) ==
    /\ runs[i].viseme = "reading"
    /\ runs[i].audio = "done"
    /\ LET evs == ParseMarks(runs[i].visemeBody)
       IN  /\ runs' = [runs EXCEPT ![i].viseme = "done", ![i].visemeResult = "ok",
                                   ![i].emitted = runs[i].emitted \o evs]
           /\ wire' = Sent(i, evs)
    /\ UNCHANGED <<conversationHistory, vadVars, sessVars, envVars>>

\* streamVisemes: the body has been read; every line is parsed and every
\* viseme mark sent, in one synchronous loop (agent.js 269-289)
VisemeReadDone(i) ==
    /\ runs[i].viseme = "reading"
    /\ LET evs == ParseMarks(runs[i].visemeBody)
       IN  /\ runs' = [runs EXCEPT ![i].viseme = "done", ![i].visemeResult = "ok",
                                   ![i].emitted = runs[i].emitted \o evs]
           /\ wire' = Sent(i, evs)
    /\ UNCHANGED <<conversationHistory, vadVars, sessVars, envVars>>

\* streamVisemes sending each mark as soon as its line has been read: the
\* read fails after the first line
VisemeReadFailSendsRead(i) ==
    /\ runs[i].viseme = "reading"
    /\ LET evs == IF runs[i].visemeBody = <<>> THEN <<>>
                  ELSE ParseMarks(<<Head(runs[i].visemeBody)>>)
       IN  /\ runs' = [runs EXCEPT ![i].viseme = "done", ![i].visemeResult = "failed",
                                   ![i].emitted = runs[i].emitted \o evs]
           /\ wire' = Sent(i, evs)
    /\ UNCHANGED <<conversationHistory, vadVars, sessVars, envVars>>

\* streamVisemes: reading the body throws (agent.js 266, 290-301)
VisemeReadFail(i) ==
    /\ runs[i].viseme = "reading"
    /\ runs' = [runs EXCEPT ![i].viseme = "done", ![i].visemeResult = "failed"]
    /\ UNCHANGED <<conversationHistory, wire, vadVars, sessVars, envVars>>

\* sendEnd() as soon as the audio stream is over, the visemes still running
TtsDoneAfterAudio(i) ==
    /\ runs[i].phase = "tts"
    /\ runs[i].audio = "done"
    /\ runs' = [runs EXCEPT ![i].phase = "resolved",
                            ![i].emitted = runs[i].emitted \o <<EndEv>>]
    /\ wire' = Sent(i, <<EndEv>>)
    /\ UNCHANGED <<conversationHistory, vadVars, sessVars, envVars>>

\* await Promise.all([streamAudio(), streamVisemes()]); sendEnd() (agent.js 304-305)
TtsDone(i) ==
    /\ runs[i].phase = "tts"
    /\ runs[i].audio = "done" /\ runs[i].viseme = "done"
    /\ runs' = [runs EXCEPT ![i].phase = "resolved",
                            ![i].emitted = runs[i].emitted \o <<EndEv>>]
    /\ wire' = Sent(i, <<EndEv>>)
    /\ UNCHANGED <<conversationHistory, vadVars, sessVars, envVars>>

(***************************************************************************)
(* The coordinator on its own: runAgent called by a caller that awaits     *)
(* each run before the next, with callbacks on an open channel.  The       *)
(* environment is the fault model of spec section 7: every provider call   *)
(* may fail, the SDK modules load.                                         *)
(***************************************************************************)
\* runs of the coordinator (turns of a session)
MaxRuns == 2

AgentInit ==
    /\ vad = createVAD /\ fedLog = <<>> /\ calls = <<>> /\ resets = 0
    /\ fresh = createVAD /\ freshCalls = <<>> /\ resetFrom = "none"
    /\ creds \in BOOLEAN
    /\ NoPlayer
    /\ stt = NoStt
    /\ signaling = <<>>
    /\ client = NoClient
    /\ demux = NoDemux
    /\ ws = "open"
    /\ pcs = <<"open">> /\ pc = 1
    /\ sinks = <<"none">> /\ audioSink = 0 /\ ondata = 0
    /\ channels = <<[readyState |-> "open"]>> /\ dataChannel = 1
    /\ vadStarted = FALSE
    /\ conversationHistory = <<>>
    /\ wire = <<>>
    /\ runs = <<>>

AgentCall(t) ==
    /\ Len(runs) < MaxRuns
    /\ \A i \in 1..Len(runs) : ~InFlight(runs[i])
    /\ runAgent(Append(ArchivedRuns, RunRecord(t, FALSE)), Len(runs) + 1, t, FALSE)
    /\ UNCHANGED <<vadVars, sessVars, envVars, conversationHistory>>

AgentNext ==
    \/ \E t \in Transcripts : AgentCall(t)
    \/ \E i \in 1..Len(runs) : LlmImport(i, TRUE)
    \/ \E i \in 1..Len(runs), raw \in LLMTexts : LlmReturn(i, raw)
    \/ \E i \in 1..Len(runs) : LlmThrow(i)
    \/ \E i \in 1..Len(runs) : PollyImport(i, TRUE)
    \/ \E i \in 1..Len(runs), stream \in AudioStreams : AudioResponse(i, stream)
    \/ \E i \in 1..Len(runs) : AudioThrow(i)
    \/ \E i \in 1..Len(runs) : AudioChunk(i)
    \/ \E i \in 1..Len(runs) : AudioEnd(i)
    \/ \E i \in 1..Len(runs) : AudioStreamFail(i)
    \/ \E i \in 1..Len(runs), body \in VisemeBodies : VisemeResponse(i, body)
    \/ \E i \in 1..Len(runs) : VisemeThrow(i)
    \/ \E i \in 1..Len(runs) : VisemeReadDone(i)
    \/ \E i \in 1..Len(runs) : VisemeReadFail(i)
    \/ \E i \in 1..Len(runs) : TtsDone(i)

SpecAgent == AgentInit /\ [][AgentNext]_vars

\* a step of some run of the coordinator
AgentProgress ==
    \E i \in 1..Len(runs) :
        \/ LlmImport(i, TRUE)
        \/ \E raw \in LLMTexts : LlmReturn(i, raw)
        \/ LlmThrow(i)
        \/ PollyImport(i, TRUE)
        \/ \E stream \in AudioStreams : AudioResponse(i, stream)
        \/ AudioThrow(i)
        \/ AudioChunk(i)
        \/ AudioEnd(i)
        \/ AudioStreamFail(i)
        \/ \E body \in VisemeBodies : VisemeResponse(i, body)
        \/ VisemeThrow(i)
        \/ VisemeReadDone(i)
        \/ VisemeReadFail(i)
        \/ TtsDone(i)

\* every provider call eventually returns or throws
FairSpecAgent == SpecAgent /\ WF_vars(AgentProgress)

(***************************************************************************)
(* Claims about the Turn Detector.                                         *)
(***************************************************************************)
\* the frames fed up to and including the one that made callback c
FedAt(c) == SubSeq(fedLog, 1, c.at)

\* the frames of log after its last voiced frame (all of log when none is voiced)
RECURSIVE TrailingUnvoiced(_)
TrailingUnvoiced(log) ==
    IF log = <<>> THEN <<>>
    ELSE IF isVoice(log[Len(log)]) THEN <<>>
    ELSE Append(TrailingUnvoiced(SubSeq(log, 1, Len(log) - 1)), log[Len(log)])

\* the frames of the utterance buffer as durations
RECURSIVE BufferMs(_)
BufferMs(buf) ==
    IF buf = <<>> THEN 0
    ELSE ((Head(buf).byteLength \div 2) * 1000) \div Head(buf).sampleRate + BufferMs(Tail(buf))

\* the voiced frames of log are consecutive: one burst
SingleBurst(log) ==
    \A i, j, k \in 1..Len(log) :
        (i < j /\ j < k /\ isVoice(log[i]) /\ isVoice(log[k])) => isVoice(log[j])

\* C1: between two consecutive reset() calls (and before the first) the
\* utterance-ready callback is invoked at most once, whatever is fed.
C1_AtMostOneCallback == Len(calls) <= 1

\* C1 witness: after a reset, the detector has triggered and more frames were fed
C1_Witness ==
    /\ resets >= 1
    /\ Len(calls) = 1
    /\ Len(fedLog) >= calls[1].at + 1
    /\ ~isVoice(fedLog[Len(fedLog)])
    /\ fedLog[Len(fedLog)].byteLength >= 2

\* C2: the callback is invoked only when, since the last reset(), the voiced
\* frames total at least the speech quota and the frames since the most recent
\* voiced frame (all non-voiced) total at least the silence threshold; a single
\* voiced burst shorter than the quota never triggers, whatever silence follows.
C2_OnlyAfterSpeechThenSilence ==
    /\ \A i \in 1..Len(calls) :
          /\ SumMs(VoicedOf(FedAt(calls[i]))) >= MIN_SPEECH_DURATION_MS
          /\ SumMs(TrailingUnvoiced(FedAt(calls[i]))) >= SILENCE_DURATION_MS
          /\ VoicedOf(FedAt(calls[i])) # <<>>
    /\ (SingleBurst(fedLog) /\ SumMs(VoicedOf(fedLog)) < MIN_SPEECH_DURATION_MS)
          => calls = <<>>

\* C2 witness: a trigger after speech interrupted by a pause shorter than the threshold
C2_Witness ==
    /\ Len(calls) = 1
    /\ ~SingleBurst(FedAt(calls[1]))
    /\ SumMs(UnvoicedOf(FedAt(calls[1]))) > SumMs(TrailingUnvoiced(FedAt(calls[1])))

\* C3: after reset(), from whatever phase, the detector makes exactly the callback
\* invocations (same triggering frame, buffer and sample rate) that a newly
\* created detector makes on the same frames, and its state is that detector's.
C3_ResetEquivalence ==
    resets >= 1 => (calls = freshCalls /\ vad = fresh)

\* C3 witness: reset() was called on a triggered detector and the next cycle triggered
C3_Witness ==
    /\ resets >= 1
    /\ resetFrom = "TRIGGERED"
    /\ Len(calls) = 1
    /\ Len(freshCalls) = 1

\* C4 as stated: the scenario gives exactly one trigger whose buffer holds the
\* 3.5 s of voice plus all 3.2 s of the trailing silence (6.7 s).
C4_Original ==
    ScenarioDone =>
        /\ Len(calls) = 1
        /\ BufferMs(calls[1].chunks) = ScenarioVoiceMs + ScenarioSilenceMs

\* C4 amended: the scenario gives exactly one trigger, made by the first silent
\* frame at which the silence reaches the 3 s threshold; the buffer handed over
\* holds the 3.5 s of voice plus the silence up to and including that frame
\* (between 6.5 s and 6.7 s), and silence fed after it is not buffered.
C4_ScenarioTrigger ==
    /\ Len(calls) <= 1
    /\ (Len(calls) = 1) <=> (SumMs(UnvoicedOf(fedLog)) >= SILENCE_DURATION_MS)
    /\ \A i \in 1..Len(calls) :
          /\ calls[i].chunks = [k \in 1..calls[i].at |->
                                  [amp |-> fedLog[k].amp, sampleRate |-> sampleRateOf(fedLog[k]),
                                   byteLength |-> fedLog[k].byteLength]]
          /\ BufferMs(calls[i].chunks) = ScenarioVoiceMs + SumMs(UnvoicedOf(FedAt(calls[i])))
          /\ SumMs(UnvoicedOf(SubSeq(fedLog, 1, calls[i].at - 1))) < SILENCE_DURATION_MS
          /\ BufferMs(calls[i].chunks) >= ScenarioVoiceMs + SILENCE_DURATION_MS
          /\ BufferMs(calls[i].chunks) <= ScenarioVoiceMs + ScenarioSilenceMs
          /\ vad.utteranceBuffer = calls[i].chunks
    /\ ScenarioDone => Len(calls) = 1

\* C4 witness: the scenario is over and the buffer handed over held 6.5 s
C4_Witness ==
    /\ ScenarioDone
    /\ Len(calls) = 1
    /\ BufferMs(calls[1].chunks) = ScenarioVoiceMs + SILENCE_DURATION_MS
    /\ Len(fedLog) > calls[1].at

\* the detector after the frames of log, fed to it in order
RECURSIVE FeedAll(_, _)
FeedAll(v, log) ==
    IF log = <<>> THEN v ELSE FeedAll(feed(v, Head(log)).vad, Tail(log))

\* C28: once the detector has triggered, and until reset(), the frames fed
\* to it left it exactly as the trigger left it (counters, flags, utterance
\* buffer) and fired no callback, and whatever frame is fed next changes
\* nothing either, forwards nothing to the audio-chunk listener and fires no
\* callback.
C28_TriggeredFeedIsNoOp ==
    vad.agentTriggered =>
        /\ Len(calls) = 1
        /\ vad = FeedAll(createVAD, FedAt(calls[1]))
        /\ vad.utteranceBuffer = calls[1].chunks
        /\ \A data \in Frames : feed(vad, data) = [vad |-> vad, cb |-> <<>>, chunk |-> <<>>]

\* C28 witness: a voiced frame of full size was fed to a triggered detector
C28_Witness ==
    /\ vad.agentTriggered
    /\ Len(calls) = 1
    /\ Len(fedLog) > calls[1].at
    /\ isVoice(fedLog[Len(fedLog)])

\* the frames of log that feed() accepts
Accepted(log) == SelectSeq(log, LAMBDA d : d.byteLength >= 2)

\* log from its first voiced frame on
RECURSIVE FromFirstVoiced(_)
FromFirstVoiced(log) ==
    IF log = <<>> THEN <<>>
    ELSE IF isVoice(Head(log)) THEN log
    ELSE FromFirstVoiced(Tail(log))

\* the frames of log as the utterance buffer holds them
AsBuffered(log) ==
    [k \in 1..Len(log) |->
        [amp |-> log[k].amp, sampleRate |-> sampleRateOf(log[k]),
         byteLength |-> log[k].byteLength]]

\* the frames fed in this cycle up to and including the triggering one
CycleLog == IF calls # <<>> THEN FedAt(calls[1]) ELSE fedLog

\* C29: at every point of a cycle up to and including the trigger, the
\* utterance buffer is, in feed order, exactly the accepted frames fed from
\* the first voiced frame of the cycle on, voiced or not, and so holds no
\* frame fed before it; the buffer handed over at the trigger is that buffer,
\* and its last element is the non-voiced frame with which the silence
\* reached the threshold.
C29_BufferFromFirstVoice ==
    /\ vad.utteranceBuffer = AsBuffered(FromFirstVoiced(Accepted(CycleLog)))
    /\ \A i \in 1..Len(calls) :
          LET at == calls[i].at
              last == fedLog[at]
          IN  /\ calls[i].chunks = AsBuffered(FromFirstVoiced(Accepted(FedAt(calls[i]))))
              /\ calls[i].chunks # <<>>
              /\ calls[i].chunks[Len(calls[i].chunks)] = AsBuffered(<<last>>)[1]
              /\ ~isVoice(last) /\ last.byteLength >= 2
              /\ SumMs(TrailingUnvoiced(FedAt(calls[i]))) >= SILENCE_DURATION_MS
              /\ SumMs(TrailingUnvoiced(SubSeq(fedLog, 1, at - 1))) < SILENCE_DURATION_MS

\* C29 witness: a cycle that began with a silent frame has triggered, and the
\* buffer handed over starts at the voice after it
C29_Witness ==
    /\ Len(calls) = 1
    /\ ~isVoice(fedLog[1]) /\ fedLog[1].byteLength >= 2
    /\ Len(calls[1].chunks) = calls[1].at - 1
    /\ calls[1].chunks[1] = AsBuffered(<<fedLog[2]>>)[1]
    /\ isVoice(fedLog[2])

\* C30: a frame with insufficient data (fewer than 2 bytes, or no payload)
\* is ignored: fed to the detector in any state it changes nothing, forwards
\* nothing and fires no callback, so the detector is always what the accepted
\* frames alone make of a new detector, and every callback was fired by an
\* accepted frame.
C30_ShortFrameIgnored ==
    /\ \A data \in Frames :
          data.byteLength < 2 => feed(vad, data) = [vad |-> vad, cb |-> <<>>, chunk |-> <<>>]
    /\ vad = FeedAll(createVAD, Accepted(fedLog))
    /\ \A i \in 1..Len(calls) : fedLog[calls[i].at].byteLength >= 2

\* C30 witness: within an utterance, after voice and some silence, a one-byte
\* frame and a call without payload were fed; the counters and the buffer are
\* those of the two frames before
C30_Witness ==
    /\ Len(fedLog) = 4
    /\ isVoice(fedLog[1]) /\ fedLog[2] = S1500
    /\ fedLog[3] = BadFrame /\ fedLog[4] = NoPayload
    /\ vad.totalSilenceMs = 1500
    /\ Len(vad.utteranceBuffer) = 2

(***************************************************************************)
(* Claims about the Response Synthesis Coordinator.                        *)
(***************************************************************************)
EndsIn(evs) == Len(SelectSeq(evs, LAMBDA e : e.type = "end"))
AudioIn(evs) == SelectSeq(evs, LAMBDA e : e.type = "audio")
VisemesIn(evs) == SelectSeq(evs, LAMBDA e : e.type = "viseme")

\* what the channel was given for run i, in order
Received(i) ==
    LET mine == SelectSeq(wire, LAMBDA m : m.run = i)
    IN  [k \in 1..Len(mine) |-> mine[k].ev]

\* the well-formed viseme marks of a speech-mark body, in provider order
MarksOf(body) ==
    LET good == SelectSeq(body, LAMBDA l : l.json /\ l.type = "viseme" /\ l.hasValue)
    IN  [k \in 1..Len(good) |-> VisemeEv(good[k].time, good[k].value)]

\* C7: in every run the end-of-turn marker is emitted exactly once, only after
\* both synthesis streams have completed or failed, and no audio chunk or viseme
\* event of the run is emitted after it.
C7_EndOnceAndLast ==
    \A i \in 1..Len(runs) :
        LET r == runs[i]
        IN  /\ EndsIn(r.emitted) <= 1
            /\ r.phase = "resolved" => EndsIn(r.emitted) = 1
            /\ EndsIn(r.emitted) = 1 =>
                  /\ r.emitted[Len(r.emitted)] = EndEv
                  /\ r.audio \in {"done", "idle"} /\ r.viseme \in {"done", "idle"}
                  /\ creds => (r.audio = "done" /\ r.viseme = "done")
            /\ EndsIn(Received(i)) <= 1
            /\ EndsIn(Received(i)) = 1 => Received(i)[Len(Received(i))] = EndEv

\* C7 witness: a run with audio chunks and viseme events, one stream failed
\* mid-way, and the end marker last
C7_Witness ==
    \E i \in 1..Len(runs) :
        /\ runs[i].phase = "resolved"
        /\ runs[i].audioResult = "failed"
        /\ runs[i].visemeResult = "ok"
        /\ AudioIn(runs[i].emitted) # <<>>
        /\ VisemesIn(runs[i].emitted) # <<>>
        /\ runs[i].emitted[1].type = "viseme"
        /\ EndsIn(runs[i].emitted) = 1

\* C8: whatever the outcomes of the generation call and of the two synthesis
\* calls, once the generation call is issued the end-of-turn marker of the run
\* is eventually sent (every call eventually returning or throwing).
C8_EndEventuallySent ==
    \A i \in 1..MaxRuns :
        (Len(runs) >= i /\ runs[i].phase = "llm")
            ~> (Len(runs) >= i /\ EndsIn(runs[i].emitted) = 1 /\ EndsIn(Received(i)) = 1)

\* C8 witness: the end marker sent after the generation call threw, the audio
\* stream failed mid-stream and the viseme call threw
C8_Witness ==
    \E i \in 1..Len(runs) :
        /\ runs[i].llm = "threw"
        /\ runs[i].audioResult = "failed" /\ AudioIn(runs[i].emitted) # <<>>
        /\ runs[i].visemeResult = "threw"
        /\ EndsIn(Received(i)) = 1

\* C9: when the generation call throws, the response text is the fixed fallback
\* string, both synthesis calls are issued on that string, and the end-of-turn
\* marker is eventually sent: the turn is not aborted.
C9_FallbackOnGenerationFailure ==
    /\ [](\A i \in 1..Len(runs) :
            runs[i].llm = "threw" =>
               /\ runs[i].text = FALLBACK_TEXT
               /\ runs[i].phase \in {"ttsImport", "tts", "resolved"}
               /\ runs[i].audio # "idle" => runs[i].audioText = FALLBACK_TEXT
               /\ runs[i].viseme # "idle" => runs[i].visemeText = FALLBACK_TEXT)
    /\ \A i \in 1..MaxRuns :
          (Len(runs) >= i /\ runs[i].llm = "threw")
              ~> (/\ Len(runs) >= i
                  /\ runs[i].audio # "idle" /\ runs[i].audioText = FALLBACK_TEXT
                  /\ runs[i].viseme # "idle" /\ runs[i].visemeText = FALLBACK_TEXT)
    /\ \A i \in 1..MaxRuns :
          (Len(runs) >= i /\ runs[i].llm = "threw")
              ~> (Len(runs) >= i /\ EndsIn(Received(i)) = 1)

\* C9 witness: a run whose generation call threw, resolved after speaking the fallback
C9_Witness ==
    \E i \in 1..Len(runs) :
        /\ runs[i].llm = "threw"
        /\ runs[i].phase = "resolved"
        /\ runs[i].audioText = FALLBACK_TEXT /\ runs[i].visemeText = FALLBACK_TEXT
        /\ AudioIn(Received(i)) # <<>>
        /\ EndsIn(Received(i)) = 1

\* C10: when the audio synthesis call throws and the viseme synthesis succeeds,
\* the client receives no audio chunk, every viseme event in provider order, and
\* exactly one end-of-turn marker.
C10_AudioFailureKeepsVisemes ==
    \A i \in 1..Len(runs) :
        (runs[i].audioResult = "threw" /\ runs[i].visemeResult = "ok") =>
            /\ AudioIn(Received(i)) = <<>>
            /\ VisemesIn(Received(i)) = MarksOf(runs[i].visemeBody)
            /\ runs[i].phase = "resolved" =>
                  Received(i) = MarksOf(runs[i].visemeBody) \o <<EndEv>>
            /\ runs[i].emitted = Received(i)

\* C10 witness: such a run, resolved, whose viseme body had a malformed line
\* between two viseme marks
C10_Witness ==
    \E i \in 1..Len(runs) :
        /\ runs[i].audioResult = "threw" /\ runs[i].visemeResult = "ok"
        /\ runs[i].phase = "resolved"
        /\ Len(MarksOf(runs[i].visemeBody)) = 2
        /\ Len(runs[i].visemeBody) = 3
        /\ Len(Received(i)) = 3

\* the last n entries of the conversation history
LastOf(h, n) == IF Len(h) < n THEN <<>> ELSE SubSeq(h, Len(h) - n + 1, Len(h))

\* C11 as stated: after a successful generation the history ends with the pair
\* (user transcript, generated response text)
C11_Original ==
    \A i \in 1..Len(runs) :
        runs[i].llm = "ok" =>
            LastOf(conversationHistory, 2) =
                <<[role |-> "user", content |-> runs[i].userTranscript],
                  [role |-> "assistant", content |-> runs[i].text]>>

\* C11 (amended): the history changes only at a successful generation call,
\* which appends the pair (user entry, assistant entry) in that order: the user
\* entry is the trimmed transcript, or "(no speech detected)" when the transcript
\* is blank, and the assistant entry is the response text the turn speaks.  A
\* failed generation leaves the history as it was and the turn goes on with the
\* fallback text.
C11_HistoryPair ==
    /\ [](\A i \in 1..Len(runs) :
            /\ runs[i].llm = "ok" =>
                  LastOf(conversationHistory, 2) =
                     <<[role |-> "user",
                        content |-> IF Trim(runs[i].userTranscript) = "" THEN NO_SPEECH
                                    ELSE Trim(runs[i].userTranscript)],
                       [role |-> "assistant", content |-> runs[i].text]>>
            /\ runs[i].llm = "threw" => runs[i].text = FALLBACK_TEXT)
    /\ [][/\ conversationHistory' # conversationHistory =>
               /\ Len(conversationHistory') = Len(conversationHistory) + 2
               /\ SubSeq(conversationHistory', 1, Len(conversationHistory)) = conversationHistory
               /\ \E i \in 1..Len(runs) : runs[i].phase = "llm" /\ runs'[i].llm = "ok"
          /\ \A i \in 1..Len(runs) :
               (runs[i].phase = "llm" /\ runs'[i].phase # "llm") =>
                  (runs'[i].llm = "ok" <=> conversationHistory' # conversationHistory)]_vars

\* C11 witness: a first turn on a blank transcript whose generation succeeded,
\* then a turn whose generation failed and which completed with the fallback,
\* the history still holding the first pair only
C11_Witness ==
    /\ Len(runs) = 2
    /\ runs[2].llm = "threw" /\ runs[2].phase = "resolved"
    /\ runs[2].text = FALLBACK_TEXT
    /\ Len(conversationHistory) = 2
    /\ conversationHistory[1] = [role |-> "user", content |-> NO_SPEECH]
    /\ conversationHistory[2].role = "assistant"

\* the sizes of the audio chunks among evs
AudioSizes(evs) == [k \in 1..Len(AudioIn(evs)) |-> AudioIn(evs)[k].size]

\* the chunks of stream that streamAudio forwards
NonEmptyChunks(stream) == SelectSeq(stream, LAMBDA n : n > 0)

IsPrefix(a, b) == Len(a) <= Len(b) /\ SubSeq(b, 1, Len(a)) = a

\* C33 as stated: every relative interleaving of the audio chunks and the
\* viseme events of a turn is possible.  An event of one stream can fall
\* between two events of the other only if these two are emitted in separate
\* steps: so no step of a run emits more than one event while the run's audio
\* stream still has chunks to give.
C33_Original ==
    [][\A i \in 1..Len(runs) :
          (creds /\ runs[i].audio = "streaming" /\ NonEmptyChunks(runs[i].audioLeft) # <<>>)
              => Len(runs'[i].emitted) <= Len(runs[i].emitted) + 1]_vars

\* C33: the two streams of a turn run with no barrier between them: an audio
\* chunk that is available can be emitted whatever the state of the viseme
\* stream, and the viseme events can be emitted, once the viseme response
\* has been read, whatever the state of the audio stream.  The audio chunks
\* are emitted in the order of the audio stream and the viseme events in the
\* order of the viseme response; the viseme events are emitted together, so
\* no audio chunk falls between two of them.
C33_NoBarrier ==
    creds =>
      \A i \in 1..Len(runs) :
        LET r == runs[i]
        IN  /\ (r.audio = "streaming" /\ r.audioLeft # <<>>) => ENABLED AudioChunk(i)
            /\ r.viseme = "reading" => ENABLED VisemeReadDone(i)
            /\ \E stream \in AudioStreams :
                  /\ IsPrefix(AudioSizes(r.emitted), NonEmptyChunks(stream))
                  /\ r.audio = "streaming" =>
                        NonEmptyChunks(stream) =
                            AudioSizes(r.emitted) \o NonEmptyChunks(r.audioLeft)
            /\ VisemesIn(r.emitted) =
                  IF r.visemeResult = "ok" THEN ParseMarks(r.visemeBody) ELSE <<>>
            /\ \A a, b, c \in 1..Len(r.emitted) :
                  (a < b /\ b < c /\ r.emitted[a].type = "viseme"
                     /\ r.emitted[c].type = "viseme") => r.emitted[b].type = "viseme"

\* C33 witness: a turn whose two viseme events came between its two audio
\* chunks
C33_Witness ==
    /\ creds
    /\ \E i \in 1..Len(runs) :
          /\ runs[i].phase = "resolved"
          /\ Len(runs[i].emitted) = 5
          /\ runs[i].emitted[1].type = "audio"
          /\ runs[i].emitted[2].type = "viseme"
          /\ runs[i].emitted[3].type = "viseme"
          /\ runs[i].emitted[4].type = "audio"

\* C39: viseme events are emitted only after the whole viseme response has
\* been read: a run whose viseme call is out or whose viseme response is
\* still being read, or whose viseme
\* call or read failed, has sent no viseme event; a run whose read succeeded
\* has sent every well-formed viseme mark of the body in provider order and
\* nothing for a malformed or non-viseme line
C39_VisemesAllOrNothing ==
    \A i \in 1..Len(runs) :
        /\ runs[i].viseme \in {"request", "reading"}
           => VisemesIn(runs[i].emitted) = <<>> /\ VisemesIn(Received(i)) = <<>>
        /\ runs[i].visemeResult \in {"failed", "threw"}
           => VisemesIn(runs[i].emitted) = <<>> /\ VisemesIn(Received(i)) = <<>>
        /\ runs[i].visemeResult = "ok"
           => /\ VisemesIn(runs[i].emitted) = MarksOf(runs[i].visemeBody)
              /\ VisemesIn(Received(i)) = MarksOf(runs[i].visemeBody)

\* C39 witness: a run is over whose viseme response held viseme marks and
\* failed while it was read: the client got the audio and the end marker
\* and no viseme
C39_Witness ==
    \E i \in 1..Len(runs) :
        /\ runs[i].phase = "resolved"
        /\ runs[i].visemeResult = "failed"
        /\ MarksOf(runs[i].visemeBody) # <<>>
        /\ runs[i].audioResult = "ok" /\ AudioIn(Received(i)) # <<>>
        /\ VisemesIn(Received(i)) = <<>>
        /\ EndsIn(Received(i)) = 1

\* C27: without provider credentials a run emits no audio chunk; it emits
\* viseme events at times 0, 80, ..., 1920 ms in this order, each with one of
\* the viseme codes, then one end-of-turn marker and nothing after it; the
\* open channel carries the same; the conversation history stays as it was
\* (empty); and the run completes within the call.
C27_TestResponse ==
    ~creds =>
        /\ conversationHistory = <<>>
        /\ \A i \in 1..Len(runs) :
              /\ runs[i].phase \in {"resolved", "archived"}
              /\ runs[i].phase = "resolved" =>
                    LET e == runs[i].emitted
                    IN  /\ Len(e) = 26
                        /\ \A k \in 1..25 :
                              /\ e[k].type = "viseme"
                              /\ e[k].time = 80 * (k - 1)
                              /\ \E c \in 1..Len(VISEME_CODES) : e[k].value = VISEME_CODES[c]
                        /\ e[25].time = 1920
                        /\ e[26] = EndEv
                        /\ AudioIn(e) = <<>>
                        /\ Received(i) = e

\* C27 witness: the second run of a session without credentials has sent its
\* test response, with more than one viseme code in it
C27_Witness ==
    /\ ~creds
    /\ Len(runs) = 2
    /\ runs[2].phase = "resolved"
    /\ Len(runs[2].emitted) = 26
    /\ runs[2].emitted[25].time = 1920
    /\ runs[2].emitted[1].value # runs[2].emitted[2].value
    /\ Received(2) = runs[2].emitted

(***************************************************************************)
(* The Session Controller: the handler of one signaling connection         *)
(* (wss.on('connection')), with the detector it creates and the runs the   *)
(* detector's callback starts.  Every inbound signaling message here is a  *)
(* valid offer whose handshake succeeds.                                   *)
(***************************************************************************)
\* offers one signaling connection may carry
MaxOffers == 2

\* frames the detector buffers in one round of a session
MaxBuffered == 4

\* what the providers may give within a session
SessionFrames == {V1500, S1500}
SessionTranscripts == {" hi "}
SessionTexts == {"Sure."}
SessionAudio == {<<3>>}
SessionBodies == {<<MarkLine(0, "p")>>}

\* let pc = null, dataChannel = null, audioSink = null, vadStarted = false,
\* conversationHistory = []
SessionInit ==
    /\ vad = createVAD /\ fedLog = <<>> /\ calls = <<>> /\ resets = 0
    /\ fresh = createVAD /\ freshCalls = <<>> /\ resetFrom = "none"
    /\ creds \in BOOLEAN
    /\ NoPlayer
    /\ stt = NoStt
    /\ signaling = <<>>
    /\ client = NoClient
    /\ demux = NoDemux
    /\ ws = "open"
    /\ pcs = <<>> /\ pc = 0
    /\ sinks = <<>> /\ audioSink = 0 /\ ondata = 0
    /\ channels = <<>> /\ dataChannel = 0
    /\ vadStarted = FALSE
    /\ conversationHistory = <<>>
    /\ wire = <<>>
    /\ runs = <<>>

\* a .then/.catch callback of a settled run is queued: it runs before any
\* other event is handled
PendingCallback ==
    \E i \in 1..Len(runs) : runs[i].phase \in {"resolved", "rejected"} /\ ~runs[i].handled

\* tryStartVAD() without the vadStarted flag: every call that finds a sink and
\* an open channel makes a new detector and wires the sink to it
tryStartVADUnguarded(sink, ch, chans) ==
    IF sink = 0 \/ ch = 0 \/ chans[ch].readyState # "open"
    THEN /\ vadStarted' = vadStarted /\ ondata' = ondata /\ vad' = vad
    ELSE /\ vadStarted' = TRUE
         /\ vad' = createVAD
         /\ ondata' = sink

\* tryStartVAD() with the handler's audioSink and dataChannel being sink and ch
tryStartVAD(sink, ch, chans) ==
    IF vadStarted \/ sink = 0 \/ ch = 0 \/ chans[ch].readyState # "open"
    THEN /\ vadStarted' = vadStarted /\ ondata' = ondata /\ vad' = vad
    ELSE /\ vadStarted' = TRUE
         /\ vad' = createVAD
         /\ ondata' = sink

\* ws.on('message') with an offer: pc = new RTCPeerConnection(...), its
\* handlers installed
Offer ==
    /\ ws = "open"
    /\ Len(pcs) < MaxOffers
    /\ pcs' = Append(pcs, "open")
    /\ sinks' = Append(sinks, "none")
    /\ channels' = Append(channels, [readyState |-> "none"])
    /\ pc' = Len(pcs) + 1
    /\ signaling' = Append(signaling, "answer")
    /\ UNCHANGED <<audioSink, ondata, dataChannel, vadStarted, ws, vadVars, creds,
                   playVars, stt, client, demux, conversationHistory, wire, runs>>

\* pc.ontrack of connection p with its audio track; ok is whether
\* new RTCAudioSink(track) returns
OnTrack(p, ok) ==
    /\ pcs[p] = "open"
    /\ sinks[p] = "none"
    /\ IF ok
       THEN /\ sinks' = [sinks EXCEPT ![p] = "running"]
            /\ audioSink' = p
            /\ tryStartVAD(p, dataChannel, channels)
       ELSE UNCHANGED <<sinks, audioSink, vadStarted, ondata, vad>>
    /\ UNCHANGED <<ws, pcs, pc, channels, dataChannel, agentVars,
                   fedLog, calls, resets, fresh, freshCalls, resetFrom>>

\* pc.ondatachannel of connection p with its channel, which is in state st
\* when it is announced.  The channel it replaces as the handler's dataChannel
\* is never read again: its state is no longer followed ("replaced").
OnDataChannel(p, st) ==
    /\ pcs[p] = "open"
    /\ channels[p].readyState = "none"
    /\ channels' = [k \in 1..Len(channels) |->
                      IF k = p THEN [readyState |-> st]
                      ELSE IF k = dataChannel THEN [readyState |-> "replaced"]
                      ELSE channels[k]]
    /\ dataChannel' = p
    /\ tryStartVAD(audioSink, p, channels')
    /\ UNCHANGED <<ws, pcs, pc, sinks, audioSink, agentVars,
                   fedLog, calls, resets, fresh, freshCalls, resetFrom>>

\* the handler's dataChannel opens: the handler has no onopen
ChannelOpens(c) ==
    /\ c = dataChannel
    /\ channels[c].readyState = "connecting"
    /\ pcs[c] = "open"
    /\ channels' = [channels EXCEPT ![c].readyState = "open"]
    /\ UNCHANGED <<ws, pcs, pc, sinks, audioSink, ondata, dataChannel, vadStarted,
                   vadVars, agentVars>>

\* a channel closes: dataChannel.onclose only logs
ChannelCloses(c) ==
    /\ c = dataChannel
    /\ channels[c].readyState \in {"connecting", "open"}
    /\ channels' = [channels EXCEPT ![c].readyState = "closed"]
    /\ UNCHANGED <<ws, pcs, pc, sinks, audioSink, ondata, dataChannel, vadStarted,
                   vadVars, agentVars>>

\* ws.on('close'): audioSink.stop() and pc.close() on the handler's current
\* sink and connection; closing a connection closes its channel
WsClose ==
    /\ ws = "open"
    /\ ws' = "closed"
    /\ sinks' = IF audioSink # 0 THEN [sinks EXCEPT ![audioSink] = "stopped"] ELSE sinks
    /\ pcs' = IF pc # 0 THEN [pcs EXCEPT ![pc] = "closed"] ELSE pcs
    /\ channels' = IF pc # 0 /\ dataChannel = pc /\ channels[pc].readyState # "none"
                   THEN [channels EXCEPT ![pc].readyState = "closed"]
                   ELSE channels
    /\ UNCHANGED <<pc, audioSink, ondata, dataChannel, vadStarted, vadVars, agentVars>>

\* the detector's callback up to its await runSTT(utteranceChunks, sampleRate)
onTrigger(cbs) ==
    IF cbs = <<>> THEN runs
    ELSE Append(ArchivedRuns, [RunRecord("", FALSE) EXCEPT !.phase = "stt"])

\* audioSink.ondata = (data) => vad.feed(data), on the sink s it was set on.
\* The frames a round buffers are bounded; silence before any voice only grows
\* totalSilenceMs and is cut off at the threshold.
SinkData(s, data) ==
    /\ ondata = s
    /\ sinks[s] = "running"
    /\ pcs[s] = "open"
    /\ vad.agentTriggered \/ Len(vad.utteranceBuffer) < MaxBuffered
    /\ vad.hasSeenVoiceThisRound \/ isVoice(data) \/ vad.totalSilenceMs < SILENCE_DURATION_MS
    /\ LET r == feed(vad, data)
       IN  /\ r.cb # <<>> => Len(runs) < MaxRuns
           /\ vad' = r.vad
           /\ runs' = onTrigger(r.cb)
    /\ UNCHANGED <<fedLog, calls, resets, fresh, freshCalls, resetFrom,
                   sessVars, envVars, conversationHistory, wire>>

\* runSTT returns t or throws; then runAgent(getAgentOptions(userTranscript))
SttDone(i, t, threw) ==
    /\ runs[i].phase = "stt"
    /\ runAgent(runs, i, IF threw THEN "" ELSE t, threw)
    /\ UNCHANGED <<vadVars, sessVars, envVars, conversationHistory>>

\* .then(() => vad.reset()) only: a rejected run is left as it is
RunSettledThenOnly(i) ==
    /\ runs[i].phase \in {"resolved", "rejected"}
    /\ ~runs[i].handled
    /\ runs' = [runs EXCEPT ![i] = [Archived(runs[i]) EXCEPT !.handled = TRUE]]
    /\ wire' = <<>>
    /\ vad' = IF runs[i].phase = "resolved" THEN reset(vad) ELSE vad
    /\ resets' = resets + 1
    /\ resetFrom' = PhaseOf(vad)
    /\ UNCHANGED <<fedLog, calls, fresh, freshCalls, sessVars, envVars,
                   conversationHistory>>

\* .then(() => vad.reset()) / .catch((err) => vad.reset()) of run i; the
\* turn is over and its record is put away
RunSettled(i) ==
    /\ runs[i].phase \in {"resolved", "rejected"}
    /\ ~runs[i].handled
    /\ runs' = [runs EXCEPT ![i] = [Archived(runs[i]) EXCEPT !.handled = TRUE]]
    /\ wire' = <<>>
    /\ vad' = reset(vad)
    /\ resets' = resets + 1
    /\ resetFrom' = PhaseOf(vad)
    /\ UNCHANGED <<fedLog, calls, fresh, freshCalls, sessVars, envVars,
                   conversationHistory>>

SessionNext ==
    \/ ~PendingCallback /\ Offer
    \/ ~PendingCallback /\ \E p \in 1..Len(pcs), ok \in BOOLEAN : OnTrack(p, ok)
    \/ ~PendingCallback /\ \E p \in 1..Len(pcs), st \in {"connecting", "open"} : OnDataChannel(p, st)
    \/ ~PendingCallback /\ \E c \in 1..Len(channels) : ChannelOpens(c)
    \/ ~PendingCallback /\ \E c \in 1..Len(channels) : ChannelCloses(c)
    \/ ~PendingCallback /\ WsClose
    \/ ~PendingCallback /\ \E k \in 1..Len(sinks), data \in SessionFrames : SinkData(k, data)
    \/ ~PendingCallback /\ \E i \in 1..Len(runs), t \in SessionTranscripts, threw \in BOOLEAN : SttDone(i, t, threw)
    \/ ~PendingCallback /\ \E i \in 1..Len(runs), ok \in BOOLEAN : LlmImport(i, ok)
    \/ ~PendingCallback /\ \E i \in 1..Len(runs), raw \in SessionTexts : LlmReturn(i, raw)
    \/ ~PendingCallback /\ \E i \in 1..Len(runs) : LlmThrow(i)
    \/ ~PendingCallback /\ \E i \in 1..Len(runs), ok \in BOOLEAN : PollyImport(i, ok)
    \/ ~PendingCallback /\ \E i \in 1..Len(runs), stream \in SessionAudio : AudioResponse(i, stream)
    \/ ~PendingCallback /\ \E i \in 1..Len(runs) : AudioThrow(i)
    \/ ~PendingCallback /\ \E i \in 1..Len(runs) : AudioChunk(i)
    \/ ~PendingCallback /\ \E i \in 1..Len(runs) : AudioEnd(i)
    \/ ~PendingCallback /\ \E i \in 1..Len(runs) : AudioStreamFail(i)
    \/ ~PendingCallback /\ \E i \in 1..Len(runs), body \in SessionBodies : VisemeResponse(i, body)
    \/ ~PendingCallback /\ \E i \in 1..Len(runs) : VisemeThrow(i)
    \/ ~PendingCallback /\ \E i \in 1..Len(runs) : VisemeReadDone(i)
    \/ ~PendingCallback /\ \E i \in 1..Len(runs) : VisemeReadFail(i)
    \/ ~PendingCallback /\ \E i \in 1..Len(runs) : TtsDone(i)
    \/ \E i \in 1..Len(runs) : RunSettled(i)

SpecSession == SessionInit /\ [][SessionNext]_vars

\* a step of transcription, of the coordinator or of the controller's
\* completion callback
SessionProgress ==
    \E i \in 1..Len(runs) :
        \/ \E t \in SessionTranscripts, threw \in BOOLEAN : SttDone(i, t, threw)
        \/ \E ok \in BOOLEAN : LlmImport(i, ok)
        \/ \E raw \in SessionTexts : LlmReturn(i, raw)
        \/ LlmThrow(i)
        \/ \E ok \in BOOLEAN : PollyImport(i, ok)
        \/ \E stream \in SessionAudio : AudioResponse(i, stream)
        \/ AudioThrow(i)
        \/ AudioChunk(i)
        \/ AudioEnd(i)
        \/ AudioStreamFail(i)
        \/ \E body \in SessionBodies : VisemeResponse(i, body)
        \/ VisemeThrow(i)
        \/ VisemeReadDone(i)
        \/ VisemeReadFail(i)
        \/ TtsDone(i)
        \/ RunSettled(i)

\* transcription and every provider call eventually return or throw
FairSpecSession == SpecSession /\ WF_vars(SessionProgress)

(***************************************************************************)
(* Claims about the Session Controller.                                    *)
(***************************************************************************)
\* the runs that are outstanding: transcribing, in the coordinator, or settled
\* with the controller's completion callback still to run
Outstanding == {i \in 1..Len(runs) : ~runs[i].handled}

\* C5: per session at most one run (transcription followed by the coordinator)
\* is in flight at any time, whatever the interleaving of offers, track and
\* channel events, frames and provider completions: a later run exists only
\* when every earlier one has completed and the detector has been reset for it.
C5_OneRunInFlight ==
    /\ Cardinality(Outstanding) <= 1
    /\ \A i \in 1..Len(runs) : i < Len(runs) => runs[i].handled
    /\ resets = Len(runs) - Cardinality(Outstanding)
    /\ Outstanding # {} <=> vad.agentTriggered

\* C5 witness: a second run in the coordinator, the first completed and reset,
\* after a second offer whose track and channel replaced the handler's
C5_Witness ==
    /\ Len(runs) = 2
    /\ runs[1].handled /\ resets = 1
    /\ runs[2].phase = "tts"
    /\ Len(pcs) = 2 /\ audioSink = 2 /\ dataChannel = 2 /\ ondata = 1

\* C6: after every trigger, whether transcription throws or returns and
\* whether the run resolves or rejects: the run is started, with an empty
\* transcript when transcription threw; once it has settled the controller's
\* next step is reset(), which leaves the detector accepting frames; and every
\* trigger is eventually followed by that reset.
C6_RunStartedThenReset ==
    /\ [](\A i \in 1..Len(runs) :
            /\ (runs[i].sttThrew /\ runs[i].phase # "stt") => runs[i].userTranscript = ""
            /\ runs[i].handled => runs[i].phase = "archived")
    /\ [][\A i \in 1..Len(runs) :
            /\ (runs[i].phase = "stt" /\ runs'[i].phase # "stt")
                  => (/\ runs'[i].phase = IF creds THEN "llmImport" ELSE "resolved"
                      /\ runs'[i].userTranscript \in SessionTranscripts \cup {""}
                      /\ runs'[i].sttThrew => runs'[i].userTranscript = "")
            /\ (runs[i].phase \in {"resolved", "rejected"})
                  => (/\ runs'[i].handled
                      /\ vad' = createVAD
                      /\ resets' = resets + 1)]_vars
    /\ \A i \in 1..MaxRuns :
          (Len(runs) >= i /\ runs[i].phase = "stt")
              ~> (Len(runs) >= i /\ runs[i].handled /\ ~vad.agentTriggered)

\* C6 witness: the first turn completed and the detector was reset; it took
\* frames again and triggered; transcription of the second turn threw, its run
\* was started on the empty transcript and rejected
C6_Witness ==
    /\ Len(runs) = 2
    /\ runs[1].handled /\ resets = 1 /\ resetFrom = "TRIGGERED"
    /\ runs[2].sttThrew /\ runs[2].userTranscript = ""
    /\ runs[2].phase = "rejected"
    /\ vad.agentTriggered

\* the inbound media path and the ordered sub-channel are both open: the
\* handler holds a running sink on an open connection and an open dataChannel
BothOpen ==
    /\ audioSink # 0 /\ sinks[audioSink] = "running" /\ pcs[audioSink] = "open"
    /\ ChannelOpen

\* LISTENING or later: the detector exists and a sink's frames are fed to it
Listening == vadStarted /\ ondata # 0

\* C12: once the audio sink exists and the data channel is open, the session
\* eventually enters LISTENING (unless one of the two goes away), whichever of
\* the two came first and whatever the channel's state when it was announced.
C12_EventuallyListening == BothOpen ~> (Listening \/ ~BothOpen)

\* C13: after the signaling socket has closed, at any phase and after any
\* sequence of offers, every audio sink the session created is stopped and
\* every peer connection it created is closed.
C13_TeardownReleasesAll ==
    ws = "closed" =>
        /\ \A p \in 1..Len(pcs) : pcs[p] = "closed"
        /\ \A p \in 1..Len(sinks) : sinks[p] # "running"

\* C32: after any sequence of turns the conversation history has even
\* length and alternates user, assistant, starting with user; and a step
\* never changes or removes an entry the history already had.
C32_HistoryShape ==
    /\ [](/\ Len(conversationHistory) % 2 = 0
          /\ \A k \in 1..Len(conversationHistory) :
                conversationHistory[k].role = IF k % 2 = 1 THEN "user" ELSE "assistant")
    /\ [][/\ Len(conversationHistory') >= Len(conversationHistory)
          /\ \A k \in 1..Len(conversationHistory) :
                conversationHistory'[k] = conversationHistory[k]]_vars

\* C32 witness: two turns of one session have each added their pair
C32_Witness ==
    /\ Len(conversationHistory) = 4
    /\ Len(runs) = 2
    /\ runs[2].llm = "ok"

\* what a step put on the wire
NewOnWire ==
    IF Len(wire') >= Len(wire) /\ SubSeq(wire', 1, Len(wire)) = wire
    THEN SubSeq(wire', Len(wire) + 1, Len(wire'))
    ELSE wire'

\* C31: the close of the signaling socket is always handled (it throws
\* nothing, whatever the handler holds); once it has closed, a run in flight
\* can still take its next step; and every event put on the wire, before or
\* after the close, goes to the handler's sub-channel while that is open.
C31_CloseDuringRun ==
    /\ [](ws = "open" => ENABLED WsClose)
    /\ []((ws = "closed" /\ \E i \in 1..Len(runs) : InFlight(runs[i]))
            => ENABLED SessionProgress)
    /\ [][\A k \in 1..Len(NewOnWire) :
            /\ NewOnWire[k].ch = dataChannel
            /\ channels[dataChannel].readyState = "open"]_vars

\* C31 witness: the socket closed while a run was in flight; the run went on
\* to its end, and what it emitted after the channel had closed with the peer
\* link is not on the wire
C31_Witness ==
    /\ ws = "closed"
    /\ \E i \in 1..Len(runs) :
          /\ runs[i].phase = "resolved"
          /\ Received(i) # <<>>
          /\ Len(Received(i)) < Len(runs[i].emitted)
          /\ channels[dataChannel].readyState = "closed"

(***************************************************************************)
(* Inbound signaling messages of any kind: ws.on('message') with its       *)
(* try/catch.  The handler runs to its end before the next event.          *)
(***************************************************************************)
\* inbound signaling messages that end in the handler's catch
MaxBad == 2

\* a catch that swallows the error without a reply
sendNothing == signaling' = signaling

\* the catch of ws.on('message'): ws.send({type: 'error', message}), itself
\* in a try
sendError == signaling' = Append(signaling, "error")

\* signaling messages that ended in the catch so far
Errors == Len(SelectSeq(signaling, LAMBDA m : m = "error"))

\* a message JSON.parse throws on
Malformed ==
    /\ ws = "open"
    /\ Errors < MaxBad
    /\ sendError
    /\ UNCHANGED <<vadVars, sessVars, creds, playVars, stt, client, demux,
                   conversationHistory, wire, runs>>

\* an offer whose handling throws: new RTCPeerConnection(...) throws, or
\* (assigned) pc is the new connection with its handlers and then one of
\* setRemoteDescription, createAnswer, setLocalDescription rejects
OfferThrows(assigned) ==
    /\ ws = "open"
    /\ Errors < MaxBad
    /\ Len(pcs) < MaxOffers
    /\ IF assigned
       THEN /\ pcs' = Append(pcs, "open")
            /\ sinks' = Append(sinks, "none")
            /\ channels' = Append(channels, [readyState |-> "none"])
            /\ pc' = Len(pcs) + 1
       ELSE UNCHANGED <<pcs, sinks, channels, pc>>
    /\ sendError
    /\ UNCHANGED <<audioSink, ondata, dataChannel, vadStarted, ws, vadVars, creds,
                   playVars, stt, client, demux, conversationHistory, wire, runs>>

\* an ice message with a candidate while pc is set: pc.addIceCandidate
\* resolves (ok) or rejects
Ice(ok) ==
    /\ ws = "open"
    /\ pc # 0
    /\ Errors < MaxBad
    /\ IF ok THEN signaling' = signaling ELSE sendError
    /\ UNCHANGED <<vadVars, sessVars, creds, playVars, stt, client, demux,
                   conversationHistory, wire, runs>>

\* The messages, the connections' events and the sink's frames.  What a
\* triggered detector starts is left out: a started run stays in
\* transcription, which no signaling message reads or writes.
SignalingNext ==
    \/ Offer
    \/ Malformed
    \/ \E assigned \in BOOLEAN : OfferThrows(assigned)
    \/ \E ok \in BOOLEAN : Ice(ok)
    \/ \E p \in 1..Len(pcs), ok \in BOOLEAN : OnTrack(p, ok)
    \/ \E p \in 1..Len(pcs), st \in {"connecting", "open"} : OnDataChannel(p, st)
    \/ \E c \in 1..Len(channels) : ChannelOpens(c)
    \/ \E c \in 1..Len(channels) : ChannelCloses(c)
    \/ WsClose
    \/ \E k \in 1..Len(sinks), data \in SessionFrames : SinkData(k, data)

SpecSignaling == SessionInit /\ [][SignalingNext]_vars

(***************************************************************************)
(* Claims about inbound signaling messages.                                *)
(***************************************************************************)
\* the handling of one inbound message ends in the catch
Caught == Malformed \/ (\E assigned \in BOOLEAN : OfferThrows(assigned)) \/ Ice(FALSE)

\* the step put one error message, and nothing else, on the signaling socket
OneErrorReply ==
    /\ Len(signaling') = Len(signaling) + 1
    /\ signaling'[Len(signaling')] = "error"
    /\ SubSeq(signaling', 1, Len(signaling)) = signaling

\* the sub-channel, the sink, the detector and the history are as before
RestUntouched ==
    /\ dataChannel' = dataChannel /\ audioSink' = audioSink /\ ondata' = ondata
    /\ vadStarted' = vadStarted /\ vad' = vad
    /\ conversationHistory' = conversationHistory
    /\ runs' = runs /\ wire' = wire
    /\ ws' = ws
    /\ \A p \in 1..Len(pcs) :
          pcs'[p] = pcs[p] /\ sinks'[p] = sinks[p] /\ channels'[p] = channels[p]

\* C25 as stated: a signaling message that is not valid JSON, or whose
\* handling throws, is answered with one error message and leaves the peer
\* link, the sub-channel, the detector and the history unchanged.
C25_Original ==
    [][Caught => OneErrorReply /\ RestUntouched /\ pc' = pc /\ pcs' = pcs]_vars

\* C25: a signaling message that is not valid JSON, or whose handling throws,
\* is answered with one error message and leaves the sub-channel, the
\* detector and the history unchanged; the peer link is unchanged too unless
\* the message was an offer that threw after its new peer link was made, which
\* is then the session's peer link.  The socket stays open for later messages.
C25_ErrorContained ==
    [][Caught =>
        /\ OneErrorReply
        /\ RestUntouched
        /\ \/ pc' = pc /\ pcs' = pcs
           \/ pc' = Len(pcs) + 1 /\ pcs' = Append(pcs, "open")]_vars

\* an error reply, then an offer answered on a new peer link, and the
\* detector started on it
C25_Witness ==
    /\ Len(signaling) >= 2
    /\ signaling[1] = "error"
    /\ signaling[Len(signaling)] = "answer"
    /\ pc = Len(pcs) /\ pcs[pc] = "open"
    /\ vadStarted /\ ondata = pc

(***************************************************************************)
(* The Playback Scheduler: frontend/lib/useStreamingPlayback.ts, driven by  *)
(* the state useInterviewWebRTC.ts keeps (streamedAudioChunks, streamEnded) *)
(* and by Interview's onStreamingEnd.  A turn's audio is a sequence of      *)
(* decodable units; the server's chunks cut its bytes anywhere.  A state     *)
(* update and the effects it causes are two steps: more messages and        *)
(* promise callbacks may run between them.                                  *)
(***************************************************************************)
\* turns of a playback session
MaxTurns == 2
\* ctx.currentTime runs freely up to here, and further only while scheduled
\* audio has not finished
MaxClock == 2
\* visemes of one turn the client holds at a time
MaxMarks == 1

Unit(size, duration) == [size |-> size, duration |-> duration]
\* the audio of a turn: none, one unit, two units
PlayStreams == {<<>>, <<Unit(2, 1)>>, <<Unit(1, 1), Unit(2, 2)>>}

RECURSIVE StreamBytes(_)
StreamBytes(stream) ==
    IF stream = <<>> THEN 0 ELSE stream[1].size + StreamBytes(Tail(stream))

\* the last byte of unit k of a stream (0 for k = 0)
UnitEnd(stream, k) == StreamBytes(SubSeq(stream, 1, k))

Chunk(t, lo, hi) == [turn |-> t, lo |-> lo, hi |-> hi]

RECURSIVE byteLength(_)
byteLength(buf) ==
    IF buf = <<>> THEN 0 ELSE (buf[1].hi - buf[1].lo + 1) + byteLength(Tail(buf))

\* the bytes of a buffer are consecutive bytes of one turn's audio
Contiguous(buf) ==
    \A i \in 1..(Len(buf) - 1) :
        buf[i + 1].turn = buf[i].turn /\ buf[i + 1].lo = buf[i].hi + 1

\* the units of a turn's audio a buffer holds whole, when it holds nothing else
UnitsOf(buf, streams) ==
    IF buf = <<>> \/ ~Contiguous(buf) THEN {}
    ELSE LET stream == streams[buf[1].turn]
             lo == buf[1].lo
             hi == buf[Len(buf)].hi
         IN  IF /\ \E k \in 1..Len(stream) : UnitEnd(stream, k - 1) + 1 = lo
                /\ \E k \in 1..Len(stream) : UnitEnd(stream, k) = hi
             THEN {k \in 1..Len(stream) :
                     UnitEnd(stream, k - 1) + 1 >= lo /\ UnitEnd(stream, k) <= hi}
             ELSE {}

\* decodeAudioData(buffer) resolves when the buffer is one or more whole units
Decodable(buf, streams) == UnitsOf(buf, streams) # {}

RECURSIVE SumDurations(_, _)
SumDurations(stream, ks) ==
    IF ks = {} THEN 0
    ELSE LET k == CHOOSE x \in ks : TRUE
         IN  stream[k].duration + SumDurations(stream, ks \ {k})

\* decoded.duration
DecodedDuration(buf, streams) ==
    SumDurations(streams[buf[1].turn], UnitsOf(buf, streams))

StreamsOf(rcv) == [t \in 1..Len(rcv) |-> rcv[t].stream]

\* the refs of the hook, as a record the effects transform
Refs ==
    [pending |-> pendingRef, nextStartTime |-> nextStartTimeRef,
     streamStartTime |-> streamStartTimeRef, lastProcessedIndex |-> lastProcessedIndexRef,
     streamingDuration |-> streamingDurationRef, decodingInProgress |-> decodingInProgressRef,
     audioContext |-> audioContextRef, decodes |-> decodes]

\* ctx.decodeAudioData(a copy of pending): the promise is outstanding
startDecode(r, from) ==
    [r EXCEPT !.decodingInProgress = TRUE,
              !.decodes = Append(@, [input |-> r.pending, from |-> from])]

\* tryDecodeAndPlay
tryDecodeAndPlay(r) ==
    IF r.pending = <<>> THEN r
    ELSE IF r.decodingInProgress THEN r
    ELSE startDecode(r, "chunks")

\* the chunk effect keeping only the new chunks in pending
chunkEffectNewOnly(r, chunks) ==
    IF Len(chunks) = 0
    THEN [r EXCEPT !.lastProcessedIndex = 0, !.pending = <<>>, !.nextStartTime = 0,
                   !.streamStartTime = 0, !.streamingDuration = 0,
                   !.decodingInProgress = FALSE]
    ELSE IF r.lastProcessedIndex >= Len(chunks) THEN r
    ELSE tryDecodeAndPlay(
           [r EXCEPT !.audioContext = TRUE,
                     !.lastProcessedIndex = Len(chunks),
                     !.pending = SubSeq(chunks, r.lastProcessedIndex + 1, Len(chunks))])

\* the effect on [streamedChunks]
chunkEffect(r, chunks) ==
    IF Len(chunks) = 0
    THEN [r EXCEPT !.lastProcessedIndex = 0, !.pending = <<>>, !.nextStartTime = 0,
                   !.streamStartTime = 0, !.streamingDuration = 0,
                   !.decodingInProgress = FALSE]
    ELSE IF r.lastProcessedIndex >= Len(chunks) THEN r
    ELSE tryDecodeAndPlay(
           [r EXCEPT !.audioContext = TRUE,
                     !.lastProcessedIndex = Len(chunks),
                     !.pending = @ \o SubSeq(chunks, r.lastProcessedIndex + 1, Len(chunks))])

\* the effect on [streamEnded]
streamEndEffect(r, ended) ==
    IF ~ended THEN r
    ELSE IF r.pending = <<>> THEN r
    ELSE IF r.decodingInProgress THEN r
    ELSE IF ~r.audioContext THEN r
    ELSE startDecode(r, "stream-end")

SetRefs(r) ==
    /\ pendingRef' = r.pending
    /\ nextStartTimeRef' = r.nextStartTime
    /\ streamStartTimeRef' = r.streamStartTime
    /\ lastProcessedIndexRef' = r.lastProcessedIndex
    /\ streamingDurationRef' = r.streamingDuration
    /\ decodingInProgressRef' = r.decodingInProgress
    /\ audioContextRef' = r.audioContext
    /\ decodes' = r.decodes

serverVars == <<vadVars, sessVars, creds, conversationHistory, wire, runs, stt,
                signaling, client, demux>>

PlaybackInit ==
    /\ vad = createVAD /\ fedLog = <<>> /\ calls = <<>> /\ resets = 0
    /\ fresh = createVAD /\ freshCalls = <<>> /\ resetFrom = "none"
    /\ NoSession

\* setMicEnabled(enabled) with the local audio track attached
setMicEnabled(enabled) ==
    /\ micEnabled' = enabled
    /\ micLog' = IF micLog # <<>> /\ micLog[Len(micLog)] = [turn |-> turn, enabled |-> enabled]
                 THEN micLog
                 ELSE Append(micLog, [turn |-> turn, enabled |-> enabled])

\* a state the effects have not seen yet
DepsChanged ==
    \/ chunksChanged
    \/ committed.streamEnded # streamEnded
    \/ committed.isStreaming # isStreaming

\* the server starts a turn's response: the user has spoken again, so the
\* turn before was sent whole, the client holds no chunk (its microphone is
\* live) and its last render has committed
TurnStarts(stream) ==
    /\ turn < MaxTurns
    /\ turn > 0 => (received[turn].end /\ toSend = 0 /\ streamedChunks = <<>>)
    /\ ~DepsChanged
    /\ turn' = turn + 1
    /\ toSend' = StreamBytes(stream)
    /\ received' = Append(received, [stream |-> stream, chunks |-> 0, end |-> FALSE])
    /\ UNCHANGED <<streamedChunks, streamEnded, isStreaming, pendingRef, nextStartTimeRef,
                   streamStartTimeRef, lastProcessedIndexRef, streamingDurationRef,
                   streamingTimeRef, decodingInProgressRef, audioContextRef, currentTime,
                   rafRef, chunksChanged, committed, decodes, segments, callbacks,
                   micVars,
                   streamedSpeechMarks, serverVars>>

\* dc.onmessage with binary data: the next n bytes of the turn's audio
ChunkArrives(n) ==
    /\ turn > 0 /\ n \in 1..toSend
    /\ LET total == StreamBytes(received[turn].stream)
           lo == total - toSend + 1
       IN  streamedChunks' = Append(streamedChunks, Chunk(turn, lo, lo + n - 1))
    /\ chunksChanged' = TRUE
    /\ toSend' = toSend - n
    /\ received' = [received EXCEPT ![turn].chunks = @ + 1]
    /\ UNCHANGED <<streamEnded, isStreaming, pendingRef, nextStartTimeRef,
                   streamStartTimeRef, lastProcessedIndexRef, streamingDurationRef,
                   streamingTimeRef, decodingInProgressRef, audioContextRef, currentTime,
                   rafRef, committed, decodes, segments, callbacks, turn, micVars,
                   streamedSpeechMarks, serverVars>>

\* dc.onmessage with {type: 'end'}: the server sends it after the audio
EndArrives ==
    /\ turn > 0 /\ toSend = 0 /\ ~received[turn].end
    /\ streamEnded' = TRUE
    /\ received' = [received EXCEPT ![turn].end = TRUE]
    /\ UNCHANGED <<streamedChunks, isStreaming, pendingRef, nextStartTimeRef,
                   streamStartTimeRef, lastProcessedIndexRef, streamingDurationRef,
                   streamingTimeRef, decodingInProgressRef, audioContextRef, currentTime,
                   rafRef, chunksChanged, committed, decodes, segments, callbacks, turn,
                   toSend, micVars,
                   streamedSpeechMarks, serverVars>>

\* dc.onmessage with {type: 'viseme'}: the server sends a turn's visemes
\* before its end marker; the mark is appended, no effect of the player
\* depends on the list
VisemeArrives ==
    /\ turn > 0 /\ ~received[turn].end
    /\ Len(SelectSeq(streamedSpeechMarks, LAMBDA m : m.turn = turn)) < MaxMarks
    /\ streamedSpeechMarks' = Append(streamedSpeechMarks, [turn |-> turn])
    /\ UNCHANGED <<streamedChunks, streamEnded, isStreaming, pendingRef, nextStartTimeRef,
                   streamStartTimeRef, lastProcessedIndexRef, streamingDurationRef,
                   streamingTimeRef, decodingInProgressRef, audioContextRef, currentTime,
                   rafRef, chunksChanged, committed, decodes, segments, callbacks, turn,
                   toSend, received, micVars, serverVars>>

\* a render commits: the effects whose dependencies changed run, in the
\* order the hooks declare them; Interview's mute effect depends on
\* streamedAudioChunks.length (the client is connected)
Commit ==
    /\ DepsChanged
    /\ LET r1 == IF chunksChanged THEN chunkEffect(Refs, streamedChunks) ELSE Refs
           r2 == IF committed.streamEnded # streamEnded
                 THEN streamEndEffect(r1, streamEnded) ELSE r1
       IN  /\ SetRefs(r2)
           /\ rafRef' = IF \/ committed.streamEnded # streamEnded
                           \/ committed.isStreaming # isStreaming
                        THEN isStreaming /\ r2.audioContext
                        ELSE rafRef
    /\ chunksChanged' = FALSE
    /\ committed' = [streamEnded |-> streamEnded, isStreaming |-> isStreaming,
                     length |-> Len(streamedChunks)]
    /\ IF committed.length # Len(streamedChunks) /\ Len(streamedChunks) > 0
       THEN setMicEnabled(FALSE)
       ELSE UNCHANGED micVars
    /\ UNCHANGED <<streamedChunks, streamEnded, isStreaming, streamingTimeRef,
                   currentTime, segments, callbacks, turn, toSend, received,
                   streamedSpeechMarks, serverVars>>

Remove(seq, k) == SubSeq(seq, 1, k - 1) \o SubSeq(seq, k + 1, Len(seq))

\* .then of decodeAudioData starting every unit at the clock's current time
DecodeResolvesNow(k) ==
    /\ k \in 1..Len(decodes)
    /\ Decodable(decodes[k].input, StreamsOf(received))
    /\ LET d == DecodedDuration(decodes[k].input, StreamsOf(received))
       IN  /\ streamStartTimeRef' = IF nextStartTimeRef = 0 THEN currentTime
                                    ELSE streamStartTimeRef
           /\ isStreaming' = IF nextStartTimeRef = 0 THEN TRUE ELSE isStreaming
           /\ segments' = Append(segments,
                  [start |-> currentTime, duration |-> d, input |-> decodes[k].input,
                   turn |-> turn, at |-> currentTime, first |-> nextStartTimeRef = 0])
           /\ nextStartTimeRef' = currentTime + d
           /\ streamingDurationRef' = (nextStartTimeRef' - streamStartTimeRef') * 1000
    /\ pendingRef' = <<>>
    /\ decodingInProgressRef' = FALSE
    /\ decodes' = Remove(decodes, k)
    /\ UNCHANGED <<streamedChunks, streamEnded, lastProcessedIndexRef, streamingTimeRef,
                   audioContextRef, currentTime, rafRef, chunksChanged, committed,
                   callbacks, turn, toSend, received, micVars,
                   streamedSpeechMarks, serverVars>>

\* decodeAudioData resolves: .then schedules the decoded buffer and clears
\* pending, .finally clears the flag
DecodeResolves(k) ==
    /\ k \in 1..Len(decodes)
    /\ Decodable(decodes[k].input, StreamsOf(received))
    /\ LET d == DecodedDuration(decodes[k].input, StreamsOf(received))
           start == IF nextStartTimeRef = 0 THEN currentTime ELSE nextStartTimeRef
       IN  /\ streamStartTimeRef' = IF nextStartTimeRef = 0 THEN currentTime
                                    ELSE streamStartTimeRef
           /\ isStreaming' = IF nextStartTimeRef = 0 THEN TRUE ELSE isStreaming
           /\ segments' = Append(segments,
                  [start |-> start, duration |-> d, input |-> decodes[k].input,
                   turn |-> turn, at |-> currentTime, first |-> nextStartTimeRef = 0])
           /\ nextStartTimeRef' = start + d
           /\ streamingDurationRef' = (nextStartTimeRef' - streamStartTimeRef') * 1000
    /\ pendingRef' = <<>>
    /\ decodingInProgressRef' = FALSE
    /\ decodes' = Remove(decodes, k)
    /\ UNCHANGED <<streamedChunks, streamEnded, lastProcessedIndexRef, streamingTimeRef,
                   audioContextRef, currentTime, rafRef, chunksChanged, committed,
                   callbacks, turn, toSend, received, micVars,
                   streamedSpeechMarks, serverVars>>

\* decodeAudioData rejects: .catch logs, .finally clears the flag
DecodeRejects(k) ==
    /\ k \in 1..Len(decodes)
    /\ ~Decodable(decodes[k].input, StreamsOf(received))
    /\ decodingInProgressRef' = FALSE
    /\ decodes' = Remove(decodes, k)
    /\ UNCHANGED <<streamedChunks, streamEnded, isStreaming, pendingRef, nextStartTimeRef,
                   streamStartTimeRef, lastProcessedIndexRef, streamingDurationRef,
                   streamingTimeRef, audioContextRef, currentTime, rafRef, chunksChanged,
                   committed, segments, callbacks, turn, toSend, received, micVars,
                   streamedSpeechMarks, serverVars>>

Max(a, b) == IF a >= b THEN a ELSE b

\* the test tick makes before it ends the turn
TickEnds(ended, time, duration) ==
    ended /\ time >= duration /\ duration > 0

\* an animation frame runs tick; on the end of the turn it calls
\* onStreamingEnd, which is Interview's setMicEnabled(true); resetStreamed()
Tick ==
    /\ rafRef
    /\ streamingTimeRef' = Max(0, (currentTime - streamStartTimeRef) * 1000)
    /\ IF TickEnds(committed.streamEnded, streamingTimeRef', streamingDurationRef)
       THEN /\ isStreaming' = FALSE
            /\ callbacks' = Append(callbacks,
                   [turn |-> turn, at |-> currentTime, end |-> received[turn].end,
                    ended |-> committed.streamEnded, elapsed |-> streamingTimeRef',
                    total |-> streamingDurationRef, cursor |-> nextStartTimeRef,
                    decoding |-> Len(decodes)])
            /\ streamedChunks' = <<>>
            /\ streamedSpeechMarks' = <<>>
            /\ chunksChanged' = TRUE
            /\ streamEnded' = FALSE
            /\ rafRef' = FALSE
            /\ setMicEnabled(TRUE)
       ELSE /\ streamingTimeRef' # streamingTimeRef
            /\ UNCHANGED <<isStreaming, callbacks, streamedChunks, chunksChanged,
                           streamEnded, streamedSpeechMarks, rafRef, micVars>>
    /\ UNCHANGED <<pendingRef, nextStartTimeRef, streamStartTimeRef, lastProcessedIndexRef,
                   streamingDurationRef, decodingInProgressRef, audioContextRef,
                   currentTime, committed, decodes, segments, turn, toSend, received,
                   serverVars>>

\* the audio clock advances
ClockAdvances ==
    /\ audioContextRef
    /\ currentTime < MaxClock \/ currentTime < nextStartTimeRef
    /\ currentTime' = currentTime + 1
    /\ UNCHANGED <<streamedChunks, streamEnded, isStreaming, pendingRef, nextStartTimeRef,
                   streamStartTimeRef, lastProcessedIndexRef, streamingDurationRef,
                   streamingTimeRef, decodingInProgressRef, audioContextRef, rafRef,
                   chunksChanged, committed, decodes, segments, callbacks, turn, toSend,
                   received, micVars,
                   streamedSpeechMarks, serverVars>>

PlaybackNext ==
    \/ \E stream \in PlayStreams : TurnStarts(stream)
    \/ \E n \in 1..3 : ChunkArrives(n)
    \/ EndArrives
    \/ VisemeArrives
    \/ Commit
    \/ \E k \in 1..2 : DecodeResolves(k)
    \/ \E k \in 1..2 : DecodeRejects(k)
    \/ Tick
    \/ ClockAdvances

SpecPlayback == PlaybackInit /\ [][PlaybackNext]_vars

PlaybackProgress ==
    \/ Commit
    \/ \E k \in 1..2 : DecodeResolves(k)
    \/ \E k \in 1..2 : DecodeRejects(k)
    \/ Tick
    \/ ClockAdvances

FairSpecPlayback == SpecPlayback /\ WF_vars(PlaybackProgress)


(***************************************************************************)
(* The scenario of three chunks: one turn whose audio is a single unit, cut *)
(* into chunks of 1200, 50 and 4000 bytes, each arriving once the scheduler *)
(* has dealt with the one before.                                          *)
(***************************************************************************)
ScenarioChunks == <<1200, 50, 4000>>
ScenarioDurations == {1, 2, 3}

RECURSIVE SumSeq(_)
SumSeq(q) == IF q = <<>> THEN 0 ELSE q[1] + SumSeq(Tail(q))

ChunkScenarioInit ==
    /\ vad = createVAD /\ fedLog = <<>> /\ calls = <<>> /\ resets = 0
    /\ fresh = createVAD /\ freshCalls = <<>> /\ resetFrom = "none"
    /\ creds = FALSE
    /\ ws = "open"
    /\ pcs = <<>> /\ pc = 0
    /\ sinks = <<>> /\ audioSink = 0 /\ ondata = 0
    /\ channels = <<>> /\ dataChannel = 0
    /\ vadStarted = FALSE
    /\ conversationHistory = <<>>
    /\ wire = <<>>
    /\ runs = <<>>
    /\ streamedChunks = <<>> /\ streamEnded = FALSE /\ isStreaming = FALSE
    /\ streamedSpeechMarks = <<>>
    /\ pendingRef = <<>> /\ nextStartTimeRef = 0 /\ streamStartTimeRef = 0
    /\ lastProcessedIndexRef = 0 /\ streamingDurationRef = 0 /\ streamingTimeRef = 0
    /\ decodingInProgressRef = FALSE /\ audioContextRef = FALSE /\ currentTime = 0
    /\ rafRef = FALSE /\ chunksChanged = FALSE
    /\ committed = [streamEnded |-> FALSE, isStreaming |-> FALSE, length |-> 0]
    /\ micEnabled = TRUE /\ micLog = <<>>
    /\ decodes = <<>> /\ segments = <<>> /\ callbacks = <<>>
    /\ stt = NoStt
    /\ signaling = <<>>
    /\ client = NoClient
    /\ demux = NoDemux
    /\ turn = 1
    /\ toSend = SumSeq(ScenarioChunks)
    /\ \E d \in ScenarioDurations :
          received = <<[stream |-> <<Unit(SumSeq(ScenarioChunks), d)>>,
                        chunks |-> 0, end |-> FALSE]>>

\* the next chunk of the scenario arrives; the attempt on the chunk before
\* has settled
ScenarioChunk ==
    /\ decodes = <<>> /\ ~DepsChanged
    /\ received[1].chunks < Len(ScenarioChunks)
    /\ ChunkArrives(ScenarioChunks[received[1].chunks + 1])

ChunkScenarioNext ==
    \/ ScenarioChunk
    \/ EndArrives
    \/ Commit
    \/ DecodeResolves(1)
    \/ DecodeRejects(1)
    \/ Tick
    \/ ClockAdvances

SpecChunkScenario == ChunkScenarioInit /\ [][ChunkScenarioNext]_vars

(***************************************************************************)
(* Claims about the Playback Scheduler.                                    *)
(***************************************************************************)
\* the chunks of a buffer, as a set
ChunksIn(buf) == {buf[i] : i \in 1..Len(buf)}

\* C14: at most one decodeAudioData() promise is outstanding at any time, in
\* every interleaving of chunk arrivals, the end marker, decode completions,
\* turn completion and the reset of the stream state that follows it
C14_OneDecodeInFlight == Len(decodes) <= 1

\* C15: a step drops bytes from pending only when it is a decode resolving
\* whose input held those bytes; bytes appended while the decode was
\* outstanding stay in pending when it completes
C15_ClearedOnlyWhenConsumed ==
    [][\A c \in ChunksIn(pendingRef) \ ChunksIn(pendingRef') :
          /\ Len(segments') = Len(segments) + 1
          /\ c \in ChunksIn(segments'[Len(segments')].input)]_vars


\* the segments scheduled since the stream state was last reset: the last
\* one that found the cursor at 0 and those after it
TurnSegments ==
    IF nextStartTimeRef = 0 \/ segments = <<>> THEN <<>>
    ELSE LET f == CHOOSE i \in 1..Len(segments) :
                     /\ segments[i].first
                     /\ \A j \in (i + 1)..Len(segments) : ~segments[j].first
         IN  SubSeq(segments, f, Len(segments))

RECURSIVE TotalDuration(_)
TotalDuration(segs) ==
    IF segs = <<>> THEN 0 ELSE segs[1].duration + TotalDuration(Tail(segs))

\* C16: the first unit scheduled in a turn starts at the clock's time at its
\* decode, every later one starts exactly where the one before it ends, and
\* streamingDurationRef is the sum of the durations scheduled in the turn
C16_ContiguousSchedule ==
    /\ \A i \in 1..Len(segments) :
          IF segments[i].first
          THEN segments[i].start = segments[i].at
          ELSE /\ i > 1
               /\ segments[i].start = segments[i - 1].start + segments[i - 1].duration
    /\ streamingDurationRef = 1000 * TotalDuration(TurnSegments)

\* a second unit was decoded at a time that is not the end of the first, and
\* was scheduled behind it
C16_Witness ==
    /\ Len(TurnSegments) = 2
    /\ TurnSegments[2].at # TurnSegments[1].start + TurnSegments[1].duration
    /\ TurnSegments[2].at # TurnSegments[1].at


\* the segments scheduled from the audio of turn t
SegmentsOf(t) == SelectSeq(segments, LAMBDA g : g.input[1].turn = t)

\* nothing is left to run for the audio received so far: no decode is
\* outstanding and no effect is waiting for a commit
Settled == decodes = <<>> /\ ~DepsChanged

RECURSIVE StreamDuration(_)
StreamDuration(stream) ==
    IF stream = <<>> THEN 0 ELSE stream[1].duration + StreamDuration(Tail(stream))

\* C17: once a turn of N decodable units has been received whole and the
\* scheduler has nothing left to run, it has scheduled exactly N segments
\* from the turn's audio, each starting where the one before ends, whose
\* durations sum to the duration of the N units, however the bytes were cut
\* into chunks and whenever the chunks arrived
C17_AllUnitsScheduled ==
    \A t \in 1..Len(received) :
        (received[t].end /\ Settled)
        => LET segs == SegmentsOf(t)
           IN  /\ Len(segs) = Len(received[t].stream)
               /\ TotalDuration(segs) = StreamDuration(received[t].stream)
               /\ \A i \in 2..Len(segs) :
                      segs[i].start = segs[i - 1].start + segs[i - 1].duration


\* (now - start) * 1000, what tick would store in streamingTimeRef
Elapsed == Max(0, (currentTime - streamStartTimeRef) * 1000)

\* C18: the completion callback fires if and only if the end of the turn has
\* been received and the elapsed time has reached the total scheduled
\* duration.  Only if: every invocation saw the end flag set and the elapsed
\* time at or past the total, at a clock time at or past the end of the last
\* scheduled unit.  If: the scheduler never comes to rest with the end
\* received and the elapsed time at or past the total without having fired
\* (firing clears the end flag)
C18_CompletionIffDrained ==
    /\ \A i \in 1..Len(callbacks) :
          /\ callbacks[i].ended
          /\ callbacks[i].elapsed >= callbacks[i].total
          /\ callbacks[i].at >= callbacks[i].cursor
    /\ ~(/\ streamEnded /\ Settled /\ ~rafRef
         /\ Elapsed >= streamingDurationRef)


\* the invocations of the completion callback made during turn t
CallbacksOf(t) == SelectSeq(callbacks, LAMBDA c : c.turn = t)

\* C19: for every turn the completion callback is invoked exactly once,
\* after the turn's end marker: never twice, and never skipped (it has been
\* invoked by the time the scheduler has come to rest after the end marker,
\* and before the next turn starts), also for a turn without audio chunks
C19_ExactlyOncePerTurn ==
    \A t \in 1..Len(received) :
        /\ Len(CallbacksOf(t)) <= 1
        /\ \A i \in 1..Len(CallbacksOf(t)) : CallbacksOf(t)[i].end
        /\ t < turn => Len(CallbacksOf(t)) = 1
        /\ (received[t].end /\ Settled /\ ~rafRef) => Len(CallbacksOf(t)) = 1


\* the first k chunks the client received, as one buffer
FirstChunks(k) == SubSeq(streamedChunks, 1, k)

C21_MicOrdering ==
    /\ (streamedChunks # <<>> /\ committed.length = Len(streamedChunks)) => ~micEnabled
    /\ \A i \in 1..Len(callbacks) :
          callbacks[i].end /\ callbacks[i].at >= callbacks[i].cursor
    /\ \A i \in 1..Len(micLog) : \A j \in (i + 1)..Len(micLog) :
          ~(micLog[i].turn = micLog[j].turn /\ micLog[i].enabled /\ ~micLog[j].enabled)

\* C22: a client whose microphone was muted in a turn is not left muted: the
\* scheduler does not come to rest, after the turn's end marker and with no
\* scheduled audio left to play, with the microphone still disabled
C22_MicReenabled ==
    ~(/\ turn > 0 /\ received[turn].end
      /\ Settled /\ ~rafRef
      /\ currentTime >= nextStartTimeRef
      /\ ~micEnabled)


(***************************************************************************)
(* Claims about the end of a turn in the playback scheduler.               *)
(***************************************************************************)
\* the render in which the end marker is first seen commits, so the effect
\* on [streamEnded] runs with the flag set
EndEffectRuns == Commit /\ streamEnded /\ ~committed.streamEnded

\* C35: when the end of the turn is signalled while undecoded bytes are
\* pending, a final decode of all pending bytes is outstanding once the
\* stream-end effect has run, also when an earlier decode is in flight; and
\* when the turn is declared complete (the completion callback is invoked
\* after the turn's end marker) the scheduled total is the duration of every
\* decodable unit received in the turn
C35_FinalDecodeBeforeComplete ==
    /\ [](\A i \in 1..Len(callbacks) :
            callbacks[i].end
            => callbacks[i].total
                   = 1000 * StreamDuration(received[callbacks[i].turn].stream))
    /\ [][(EndEffectRuns /\ pendingRef' # <<>>)
            => \E k \in 1..Len(decodes') : decodes'[k].input = pendingRef']_vars

\* no event of the turn in progress has been received
NoEventYet ==
    /\ turn > 0
    /\ received[turn].chunks = 0 /\ ~received[turn].end
    /\ \A k \in 1..Len(streamedSpeechMarks) : streamedSpeechMarks[k].turn # turn

\* the client receives the first event of the turn: a chunk, a viseme or
\* the end marker
FirstEvent ==
    /\ NoEventYet
    /\ \/ \E n \in 1..3 : ChunkArrives(n)
       \/ VisemeArrives
       \/ EndArrives

\* C36: when the client receives the first event of a turn, streamEnded is
\* false and the chunk list and the viseme list hold no event of an earlier
\* turn, after any earlier turns, turns without audio chunks included
C36_CleanAtFirstEvent ==
    [][FirstEvent
        => /\ ~streamEnded
           /\ \A k \in 1..Len(streamedChunks) : streamedChunks[k].turn = turn
           /\ \A k \in 1..Len(streamedSpeechMarks) :
                  streamedSpeechMarks[k].turn = turn]_vars

\* outstanding decode k was started on bytes of a turn before the one in
\* progress, whose start found the stream state reset (no chunk held)
EarlierTurnDecode(k) ==
    /\ k \in 1..Len(decodes)
    /\ decodes[k].input[1].turn < turn

\* C37: a decode started during one turn does not affect a later turn: when
\* it completes after the stream state was reset and the next turn has
\* started, it schedules no audio, leaves the cursor, the anchor and the
\* total scheduled duration as they are and does not clear pending bytes of
\* the new turn
C37_TurnIsolation ==
    [][\A k \in 1..2 :
          (EarlierTurnDecode(k) /\ (DecodeResolves(k) \/ DecodeRejects(k)))
          => /\ segments' = segments
             /\ nextStartTimeRef' = nextStartTimeRef
             /\ streamStartTimeRef' = streamStartTimeRef
             /\ streamingDurationRef' = streamingDurationRef
             /\ \A j \in 1..Len(pendingRef) :
                    pendingRef[j].turn = turn
                    => \E i \in 1..Len(pendingRef') : pendingRef'[i] = pendingRef[j]]_vars


(***************************************************************************)
(* The client's connection: frontend/lib/useInterviewWebRTC.ts, connect()   *)
(* and disconnect() as the Interview component's buttons allow them, and    *)
(* the events of the sockets, peer links and channels connect() made.  The  *)
(* promise executor runs inside connect(): its ws.onerror and ws.onclose    *)
(* replace the ones assigned before it.                                     *)
(***************************************************************************)
\* calls of connect() in one run of the page
MaxConnects == 2

\* what one connect() makes
NewConn ==
    [ws |-> "connecting", pc |-> "none", dc |-> "none", offer |-> "none",
     answered |-> FALSE, promise |-> "pending"]

\* reject(...) or resolve() of the promise connect() number w returned
settle(conns, w, how) ==
    IF w # 0 /\ conns[w].promise = "pending"
    THEN [conns EXCEPT ![w].promise = how]
    ELSE conns

ClientRest == <<vadVars, sessVars, creds, conversationHistory, wire, runs, playVars,
                stt, signaling, demux>>

\* handleStart -> connect(mediaStream); "Start interview" is disabled while
\* connecting or connected
Connect ==
    /\ client.status \notin {"connecting", "connected"}
    /\ Len(client.conns) < MaxConnects
    /\ client' = [client EXCEPT
                    !.connectedRef = FALSE,
                    !.status = "connecting",
                    !.error = "null",
                    !.conns = Append(@, NewConn),
                    !.wsRef = Len(client.conns) + 1,
                    !.rejectRef = Len(client.conns) + 1,
                    !.failed = FALSE]
    /\ UNCHANGED ClientRest

\* ws.onopen of socket w: the peer link, the track, the sub-channel, and
\* createOffer() started
WsOpens(w) ==
    /\ client.conns[w].ws = "connecting"
    /\ client' = [client EXCEPT
                    !.conns[w] = [@ EXCEPT !.ws = "open", !.pc = "open",
                                           !.dc = "connecting", !.offer = "pending"],
                    !.pcRef = w]
    /\ UNCHANGED ClientRest

\* the createOffer().then(setLocalDescription).then(ws.send) chain of
\* connection w ends: the offer is sent (ok) or the .catch runs
OfferChainEnds(w, ok) ==
    /\ client.conns[w].offer = "pending"
    /\ IF ok
       THEN client' = [client EXCEPT
                         !.conns[w].offer =
                             IF client.conns[w].ws = "open" THEN "sent" ELSE "lost"]
       ELSE client' = [client EXCEPT
                         !.conns = settle([@ EXCEPT ![w].offer = "failed"], w, "rejected"),
                         !.status = "error",
                         !.error = "offer",
                         !.failed = TRUE]
    /\ UNCHANGED ClientRest

\* ws.onmessage of socket w with {type: 'answer'}: setRemoteDescription
Answer(w) ==
    /\ client.conns[w].ws = "open"
    /\ client.conns[w].offer = "sent"
    /\ client.pcRef # 0
    /\ ~client.conns[client.pcRef].answered
    /\ client' = [client EXCEPT !.conns[client.pcRef].answered = TRUE]
    /\ UNCHANGED ClientRest

\* ws.onmessage of socket w with {type: 'error', message}
ServerError(w) ==
    /\ client.conns[w].ws = "open"
    /\ client' = [client EXCEPT
                    !.conns = settle(@, client.rejectRef, "rejected"),
                    !.status = "error",
                    !.error = "server",
                    !.rejectRef = 0,
                    !.failed = @ \/ w = Len(client.conns)]
    /\ UNCHANGED ClientRest

\* socket w fails: the error event, ws.onerror = () => reject(...), and the
\* close event after it
WsFails(w) ==
    /\ client.conns[w].ws \in {"connecting", "open"}
    /\ client' = [client EXCEPT
                    !.conns = settle([@ EXCEPT ![w].ws = "closed"], w, "rejected"),
                    !.failed = @ \/ (w = Len(client.conns) /\ ~client.connectedRef)]
    /\ UNCHANGED ClientRest

\* socket w closes without an error, by the server or after ws.close():
\* ws.onclose = () => { if (!connectedRef.current) reject(...) }
WsCloses(w) ==
    /\ client.conns[w].ws \in {"connecting", "open", "closing"}
    /\ client' = [client EXCEPT
                    !.conns = IF client.connectedRef
                              THEN [@ EXCEPT ![w].ws = "closed"]
                              ELSE settle([@ EXCEPT ![w].ws = "closed"], w, "rejected"),
                    !.failed = @ \/ (/\ w = Len(client.conns)
                                     /\ client.conns[w].ws # "closing"
                                     /\ ~client.connectedRef)]
    /\ UNCHANGED ClientRest

\* dc.onopen of the sub-channel of connection w
DcOpens(w) ==
    /\ client.conns[w].dc = "connecting"
    /\ client.conns[w].pc = "open"
    /\ client.conns[w].answered
    /\ client' = [client EXCEPT
                    !.conns = settle([@ EXCEPT ![w].dc = "open"], w, "resolved"),
                    !.connectedRef = TRUE,
                    !.rejectRef = 0,
                    !.status = "connected"]
    /\ UNCHANGED ClientRest

\* dc.onclose / dc.onerror of the sub-channel of connection w: logged
DcCloses(w) ==
    /\ client.conns[w].dc \in {"connecting", "open"}
    /\ client.conns[w].pc = "open"
    /\ client' = [client EXCEPT !.conns[w].dc = "closed"]
    /\ UNCHANGED ClientRest

\* pcRef.current.close(), on the connections cs
closePc(cs, p) ==
    IF p = 0 THEN cs
    ELSE [cs EXCEPT ![p].pc = "closed",
                    ![p].dc = IF cs[p].dc = "none" THEN "none" ELSE "closed"]

\* wsRef.current.close(), on the connections cs
closeWs(cs, w) ==
    IF w = 0 \/ cs[w].ws = "closed" THEN cs ELSE [cs EXCEPT ![w].ws = "closing"]

\* handleDisconnect -> disconnect(); "Disconnect" is enabled while connecting
\* or connected
Disconnect ==
    /\ client.status \in {"connecting", "connected"}
    /\ client' = [client EXCEPT
                    !.conns = closeWs(closePc(@, client.pcRef), client.wsRef),
                    !.pcRef = 0,
                    !.wsRef = 0,
                    !.status = "idle",
                    !.error = "null",
                    !.failed = FALSE]
    /\ UNCHANGED ClientRest

ClientInit == VadInit

ClientNext ==
    \/ Connect
    \/ Disconnect
    \/ \E w \in 1..Len(client.conns) : WsOpens(w)
    \/ \E w \in 1..Len(client.conns), ok \in BOOLEAN : OfferChainEnds(w, ok)
    \/ \E w \in 1..Len(client.conns) : Answer(w)
    \/ \E w \in 1..Len(client.conns) : ServerError(w)
    \/ \E w \in 1..Len(client.conns) : WsFails(w)
    \/ \E w \in 1..Len(client.conns) : WsCloses(w)
    \/ \E w \in 1..Len(client.conns) : DcOpens(w)
    \/ \E w \in 1..Len(client.conns) : DcCloses(w)

SpecClient == ClientInit /\ [][ClientNext]_vars

(***************************************************************************)
(* Claims about the client's connection.                                   *)
(***************************************************************************)
\* the peer link and the signaling socket of the latest connect() are released
Released ==
    LET c == client.conns[Len(client.conns)]
    IN  c.pc # "open" /\ c.ws \in {"closing", "closed"}

\* C26: once a signaling or handshake failure or a server error message has
\* occurred, and until the next connect(), the client is in the error state
\* (so it is not connected) and the peer link and the signaling socket are
\* released.
C26_ErrorStateAndTeardown ==
    client.failed => client.status = "error" /\ Released

(***************************************************************************)
(* The client's sub-channel: dc.onmessage of useInterviewWebRTC.ts over the *)
(* messages of one turn.  connect() leaves dc.binaryType as the browser     *)
(* made it, so binary messages come as ArrayBuffer or as Blob; the .then    *)
(* of an already resolved promise runs before the next message, the one of  *)
(* Blob.arrayBuffer() whenever the read is done.  State updates are applied *)
(* in the order of the setState calls.                                      *)
(***************************************************************************)
Bin(id) == [kind |-> "binary", id |-> id, time |-> 0]
Vis(t) == [kind |-> "viseme", id |-> 0, time |-> t]
End == [kind |-> "end", id |-> 0, time |-> 0]

\* what the server may send in one turn: the end marker last
DemuxStreams ==
    {<<Vis(0), End>>,
     <<Bin(1), End>>,
     <<Bin(1), Bin(2), Bin(3), End>>,
     <<Vis(0), Bin(1), Vis(80), Bin(2), End>>,
     <<Bin(1), Bin(2), Vis(0), Bin(3), Bin(4), End>>}

DemuxRest == <<vadVars, sessVars, creds, conversationHistory, wire, runs, playVars,
               stt, signaling, client>>

\* dc.onmessage with the next message of the turn
OnMessage ==
    /\ demux.toCome # <<>>
    /\ LET m == Head(demux.toCome)
           d == [demux EXCEPT !.toCome = Tail(@), !.got = Append(@, m)]
       IN  demux' =
             CASE m.kind = "viseme" ->
                    [d EXCEPT !.streamedSpeechMarks = Append(@, m.time)]
               [] m.kind = "end" ->
                    [d EXCEPT !.streamEnded = TRUE]
               [] m.kind = "binary" /\ demux.binaryType = "arraybuffer" ->
                    [d EXCEPT !.streamedAudioChunks = Append(@, m.id)]
               [] m.kind = "binary" /\ demux.binaryType = "blob" ->
                    [d EXCEPT !.reading = @ \cup {m.id}]
    /\ UNCHANGED DemuxRest

\* data.arrayBuffer() of the Blob of message id resolves: the .then appends
BlobRead(id) ==
    /\ id \in demux.reading
    /\ demux' = [demux EXCEPT !.reading = @ \ {id},
                              !.streamedAudioChunks = Append(@, id)]
    /\ UNCHANGED DemuxRest

DemuxInit ==
    /\ vad = createVAD /\ fedLog = <<>> /\ calls = <<>> /\ resets = 0
    /\ fresh = createVAD /\ freshCalls = <<>> /\ resetFrom = "none"
    /\ creds = FALSE
    /\ NoPlayer
    /\ stt = NoStt
    /\ signaling = <<>>
    /\ client = NoClient
    /\ \E b \in {"arraybuffer", "blob"}, st \in DemuxStreams :
          demux = [NoDemux EXCEPT !.binaryType = b, !.toCome = st]
    /\ ws = "open"
    /\ pcs = <<>> /\ pc = 0
    /\ sinks = <<>> /\ audioSink = 0 /\ ondata = 0
    /\ channels = <<>> /\ dataChannel = 0
    /\ vadStarted = FALSE
    /\ conversationHistory = <<>>
    /\ wire = <<>>
    /\ runs = <<>>

DemuxNext ==
    \/ OnMessage
    \/ \E id \in demux.reading : BlobRead(id)

SpecDemux == DemuxInit /\ [][DemuxNext]_vars

(***************************************************************************)
(* Claims about the client's sub-channel.                                  *)
(***************************************************************************)
\* the binary messages among log, in its order
BinaryIds(log) ==
    LET b == SelectSeq(log, LAMBDA m : m.kind = "binary")
    IN  [k \in 1..Len(b) |-> b[k].id]

\* C34: the accumulated audio-chunk list always equals the binary messages
\* received in the turn, in receive order, and when streamEnded becomes true
\* every audio chunk received before the end marker is in that list.
C34_AppliedInReceiveOrder ==
    /\ [](demux.streamedAudioChunks = BinaryIds(demux.got))
    /\ [][(~demux.streamEnded /\ demux'.streamEnded) =>
             demux'.streamedAudioChunks = BinaryIds(demux'.got)]_vars

(***************************************************************************)
(* The Transcription adapter: backend/stt.js, createStreamingSTT.  Text is  *)
(* a sequence of characters, " " standing for any whitespace.  The SDK      *)
(* module loads (line 38 is outside the try) and logging does not throw.    *)
(***************************************************************************)
\* provider results per session
MaxResults == 3
\* feed() calls per session
MaxFed == 4

\* String.prototype.trim
RECURSIVE trimStart(_)
trimStart(text) ==
    IF text # <<>> /\ text[1] = " " THEN trimStart(Tail(text)) ELSE text

RECURSIVE trimEnd(_)
trimEnd(text) ==
    IF text # <<>> /\ text[Len(text)] = " "
    THEN trimEnd(SubSeq(text, 1, Len(text) - 1)) ELSE text

trim(text) == trimEnd(trimStart(text))

\* result.Alternatives?.[0]?.Transcript: <<>> when it is missing or empty
ResultTexts == {<<>>, <<"a">>, <<"b", " ">>}
ProviderResults == [IsPartial : BOOLEAN, Transcript : ResultTexts]
\* what feed() is given: byteLength 0 or 2
FedSizes == {0, 2}

\* what the adapter leaves alone
sttRest == <<vadVars, sessVars, creds, conversationHistory, wire, runs, playVars,
             signaling, client, demux>>

\* transcriptPromise = runTranscribe(), when there is none yet
startTranscribe(st) ==
    IF st.transcriptPromise = "null" THEN [st EXCEPT !.transcriptPromise = "sending"]
    ELSE st

\* const END_SENTINEL = Symbol('end'); a chunk in the queue is the number of
\* the feed() call that pushed it and its byteLength
END_SENTINEL == [id |-> 0, size |-> 0]

\* feed(buf), the call recorded in fed: after end() it returns at once
SttFeed(n) ==
    /\ creds
    /\ Len(stt.fed) < MaxFed
    /\ stt' = IF stt.ended
              THEN [stt EXCEPT !.fed = Append(@, [size |-> n, late |-> TRUE])]
              ELSE [startTranscribe(stt) EXCEPT
                      !.fed = Append(@, [size |-> n, late |-> FALSE]),
                      !.queue = IF n > 0
                                THEN Append(@, [id |-> Len(stt.fed) + 1, size |-> n])
                                ELSE @]
    /\ UNCHANGED sttRest

\* end(): without credentials it returns '' at once
SttEnd ==
    /\ ~stt.awaiting /\ stt.outcome = "none"
    /\ stt' = IF ~creds THEN [stt EXCEPT !.outcome = "resolved", !.returned = <<>>]
              ELSE [startTranscribe(stt) EXCEPT
                      !.ended = TRUE, !.queue = Append(@, END_SENTINEL),
                      !.awaiting = TRUE]
    /\ UNCHANGED sttRest

\* audioGenerator looping `while (!ended)`
GeneratorPullsUntilEnded ==
    /\ stt.transcriptPromise \in {"sending", "streaming"}
    /\ ~stt.inputDone
    /\ stt.ended \/ stt.queue # <<>>
    /\ stt' = IF stt.ended THEN [stt EXCEPT !.inputDone = TRUE]
              ELSE IF Head(stt.queue).size > 0
              THEN [stt EXCEPT !.queue = Tail(@),
                               !.delivered = Append(@, Head(stt.queue).id)]
              ELSE [stt EXCEPT !.queue = Tail(@)]
    /\ UNCHANGED sttRest

\* the provider pulls audioGenerator: one turn of its loop that finds an item
\* (an empty queue before end() makes it sleep and look again).  A chunk is
\* yielded to the provider's input stream, the sentinel ends the stream
GeneratorPulls ==
    /\ stt.transcriptPromise \in {"sending", "streaming"}
    /\ ~stt.inputDone
    /\ stt.ended \/ stt.queue # <<>>
    /\ stt' = IF stt.queue = <<>> THEN [stt EXCEPT !.inputDone = TRUE]
              ELSE IF Head(stt.queue) = END_SENTINEL
              THEN [stt EXCEPT !.queue = Tail(@), !.inputDone = TRUE]
              ELSE IF Head(stt.queue).size > 0
              THEN [stt EXCEPT !.queue = Tail(@),
                               !.delivered = Append(@, Head(stt.queue).id)]
              ELSE [stt EXCEPT !.queue = Tail(@)]
    /\ UNCHANGED sttRest

\* client.send(command) resolves
SendResolves ==
    /\ stt.transcriptPromise = "sending"
    /\ stt' = [stt EXCEPT !.transcriptPromise = "streaming"]
    /\ UNCHANGED sttRest

\* a result adding its transcript whether partial or not
ResultArrivesAny(r) ==
    /\ stt.transcriptPromise = "streaming"
    /\ Len(stt.results) < MaxResults
    /\ stt' = [stt EXCEPT !.results = Append(@, r),
                          !.fullTranscript = @ \o r.Transcript]
    /\ UNCHANGED sttRest

\* the result stream yields a result
ResultArrives(r) ==
    /\ stt.transcriptPromise = "streaming"
    /\ Len(stt.results) < MaxResults
    /\ stt' = [stt EXCEPT !.results = Append(@, r),
                          !.fullTranscript =
                              IF r.IsPartial THEN @
                              ELSE IF r.Transcript # <<>> THEN @ \o r.Transcript
                              ELSE @]
    /\ UNCHANGED sttRest

\* the result stream ends: return fullTranscript.trim()
StreamDone ==
    /\ stt.transcriptPromise = "streaming"
    /\ stt' = [stt EXCEPT !.transcriptPromise = "fulfilled",
                          !.value = trim(stt.fullTranscript)]
    /\ UNCHANGED sttRest

\* the provider call failing without a catch
ProviderFailsUncaught ==
    /\ stt.transcriptPromise \in {"sending", "streaming"}
    /\ stt' = [stt EXCEPT !.transcriptPromise = "rejected",
                          !.failedAt = Len(stt.results) + 1]
    /\ UNCHANGED sttRest

\* client.send() or the result stream throws: catch, return fullTranscript.trim()
ProviderFails ==
    /\ stt.transcriptPromise \in {"sending", "streaming"}
    /\ stt' = [stt EXCEPT !.transcriptPromise = "fulfilled",
                          !.value = trim(stt.fullTranscript),
                          !.failedAt = Len(stt.results) + 1]
    /\ UNCHANGED sttRest

\* end()'s await of transcriptPromise completes
EndSettles ==
    /\ stt.awaiting
    /\ stt.transcriptPromise \in {"fulfilled", "rejected"}
    /\ stt' = IF stt.transcriptPromise = "fulfilled"
              THEN [stt EXCEPT !.awaiting = FALSE, !.outcome = "resolved",
                               !.returned = stt.value]
              ELSE [stt EXCEPT !.awaiting = FALSE, !.outcome = "rejected"]
    /\ UNCHANGED sttRest

SttInit ==
    /\ vad = createVAD /\ fedLog = <<>> /\ calls = <<>> /\ resets = 0
    /\ fresh = createVAD /\ freshCalls = <<>> /\ resetFrom = "none"
    /\ creds \in BOOLEAN
    /\ NoPlayer
    /\ stt = NoStt
    /\ signaling = <<>>
    /\ client = NoClient
    /\ demux = NoDemux
    /\ ws = "open"
    /\ pcs = <<>> /\ pc = 0
    /\ sinks = <<>> /\ audioSink = 0 /\ ondata = 0
    /\ channels = <<>> /\ dataChannel = 0
    /\ vadStarted = FALSE
    /\ conversationHistory = <<>>
    /\ wire = <<>>
    /\ runs = <<>>

SttNext ==
    \/ \E n \in FedSizes : SttFeed(n)
    \/ SttEnd
    \/ GeneratorPulls
    \/ SendResolves
    \/ \E r \in ProviderResults : ResultArrives(r)
    \/ StreamDone
    \/ ProviderFails
    \/ EndSettles

SpecSTT == SttInit /\ [][SttNext]_vars

\* the provider keeps pulling its input stream while the call is open
FairSpecSTT == SpecSTT /\ WF_vars(GeneratorPulls)

(***************************************************************************)
(* Claims about the Transcription adapter.                                 *)
(***************************************************************************)
RECURSIVE FinalsText(_)
\* the transcripts of the final results of a sequence of results, joined
FinalsText(rs) ==
    IF rs = <<>> THEN <<>>
    ELSE (IF rs[1].IsPartial THEN <<>> ELSE rs[1].Transcript) \o FinalsText(Tail(rs))

\* C23 as stated: end() returns the concatenation, in arrival order, of the
\* transcripts of exactly the final results
C23_Original ==
    stt.outcome = "resolved" => stt.returned = FinalsText(stt.results)

\* C23: end() returns the concatenation, in arrival order, of the transcripts
\* of exactly the final results, trimmed of surrounding whitespace; partial
\* results contribute nothing
C23_FinalsOnly ==
    stt.outcome = "resolved" => stt.returned = trim(FinalsText(stt.results))

\* end() returned the text of two final results, a partial one with text
\* having arrived between them
C23_Witness ==
    /\ stt.outcome = "resolved"
    /\ Len(stt.results) = 3
    /\ ~stt.results[1].IsPartial /\ stt.results[1].Transcript = <<"a">>
    /\ stt.results[2].IsPartial /\ stt.results[2].Transcript = <<"a">>
    /\ ~stt.results[3].IsPartial /\ stt.results[3].Transcript = <<"b", " ">>
    /\ stt.returned = <<"a", "b">>

\* C24 as stated: when the provider call fails, end() resolves with the text
\* of the final results accumulated before the failure
C24_Original ==
    /\ stt.outcome # "rejected"
    /\ (stt.failedAt > 0 /\ stt.outcome # "none")
       => /\ stt.outcome = "resolved"
          /\ stt.returned = FinalsText(SubSeq(stt.results, 1, stt.failedAt - 1))

\* C24: when the provider call fails, before or after final results, end()
\* resolves, never rejects, with the text of the final results accumulated
\* before the failure, trimmed of surrounding whitespace (possibly empty)
C24_FailureStillResolves ==
    /\ stt.outcome # "rejected"
    /\ (stt.failedAt > 0 /\ stt.outcome # "none")
       => /\ stt.outcome = "resolved"
          /\ stt.returned = trim(FinalsText(SubSeq(stt.results, 1, stt.failedAt - 1)))

\* the call failed after a final result and end() resolved with its text
C24_Witness ==
    /\ stt.failedAt = 2
    /\ ~stt.results[1].IsPartial
    /\ stt.outcome = "resolved"
    /\ stt.returned = <<"b">>

\* the numbers of the feed() calls among the first k that were made before
\* end() with a non-empty chunk, in call order
RECURSIVE DueChunks(_)
DueChunks(k) ==
    IF k = 0 THEN <<>>
    ELSE DueChunks(k - 1)
         \o (IF stt.fed[k].size > 0 /\ ~stt.fed[k].late THEN <<k>> ELSE <<>>)

\* the provider call is over: its promise has settled
CallOver == stt.transcriptPromise \in {"fulfilled", "rejected"}

\* C38: the chunks delivered to the provider's input stream are at every
\* moment the first of the non-empty chunks fed before end(), each once and
\* in feed order (so a chunk fed after end() is never delivered); the input
\* stream terminates only after end(), with the queue drained and every
\* such chunk delivered; and after end() it does terminate while the
\* provider call stays open
C38_QueueDelivery ==
    /\ [](IsPrefix(stt.delivered, DueChunks(Len(stt.fed))))
    /\ [](stt.inputDone
            => /\ stt.ended /\ stt.queue = <<>>
               /\ stt.delivered = DueChunks(Len(stt.fed)))
    /\ ((stt.ended /\ creds) ~> (stt.inputDone \/ CallOver))

\* a non-empty chunk, an empty one and another non-empty one were fed,
\* end() was called, a chunk was fed after it, and the input stream has
\* terminated having delivered the first and the third
C38_Witness ==
    /\ Len(stt.fed) = 4
    /\ stt.fed[1].size > 0 /\ stt.fed[2].size = 0 /\ stt.fed[3].size > 0
    /\ stt.fed[4].late /\ stt.fed[4].size > 0
    /\ stt.inputDone
    /\ stt.delivered = <<1, 3>>

====
